---- MODULE Spec2Model ----
(***************************************************************************)
(* Session / authentication engine of the academic-affairs portal client.  *)
(*                                                                         *)
(*   core/api.py      make_request (HTTP request gateway)                  *)
(*   core/auth.py     CaptchaHandler, LoginManager                         *)
(*   core/session.py  SessionManager (session store)                       *)
(*                                                                         *)
(* Three specifications share the variables of this module:                *)
(*   Spec          LoginManager.login, CaptchaHandler and the session      *)
(*                 store, one control thread, the portal as environment    *)
(*   SpecReq       make_request, one HTTP attempt per step                 *)
(*   SpecClassify  LoginManager._check_login_response as a function of     *)
(*                 the response it is given                                *)
(*                                                                         *)
(* Text is modelled as a sequence of tokens.  The tokens are chosen so     *)
(* that no marker the code searches for can straddle a token boundary, so  *)
(* substring and suffix tests on token sequences agree with the tests of   *)
(* the code on the concatenated characters.                                *)
(***************************************************************************)
EXTENDS Integers, Sequences, FiniteSets, TLC

VARIABLES
    \* ---- LoginManager.login / CaptchaHandler / SessionManager (Spec)
    pc,                    \* position of the control thread
    call,                  \* arguments of the login() call in progress
    attempt,               \* loop index of login()'s for loop
    captcha_code,          \* local captcha_code of login(): "none" or "code"
    login_result,          \* last value of _check_login_response in login()
    login_return,          \* value login() returned: "none", "true", "false"
    current_captcha_path,  \* CaptchaHandler.current_captcha_path (0 = None)
    disk,                  \* captcha_*.jpg files present in TEMP_DIR
    cap,                   \* get_captcha() call in progress
    cap_return,            \* value get_captcha() returned (0 = None)
    session,               \* cookies of the process-wide requests.Session
    session_files,         \* <student_id>.session files (NoFile = absent)
    accounts,              \* SessionManager.accounts (registry keys)
    current_account,       \* SessionManager.current_account
    \* ---- history of the login() call in progress
    submits,               \* credential submissions made by the call
    fetches,               \* CAPTCHA fetch attempts of the call (saturating)
    only_bad_captcha,      \* every submission was answered 302 badCaptcha
    only_captcha_error,    \* every submission was classified captcha_error
    login_exit,            \* the return statement login() left through
    acquired,              \* files written by the handler, still on disk
    acq_count,             \* images the handler acquired so far, up to 2
    \* ---- make_request (SpecReq)
    mr_pc, mr_method, mr_max_retries, mr_attempt, mr_calls, mr_sleeps,
    mr_result, mr_outcomes,
    \* ---- _check_login_response (SpecClassify)
    cl_pc, cl_response, cl_result,
    \* ---- AutoSessionManager (SpecSup)
    auto_login_enabled,    \* AutoSessionManager.auto_login_enabled
    current_student_id,    \* AutoSessionManager.current_student_id
    check_timer,           \* the Timer check_timer refers to
    login_in_progress,     \* AutoSessionManager.login_in_progress
    session_tokens,        \* AutoSessionManager.session_tokens
    credentials_file,      \* contents of CREDENTIALS_FILE
    tk_pc,                 \* position of the timer thread in a tick
    ev,                    \* the owner's call in progress and its outcome
    tk_ev,                 \* the last step of the tick and its outcome
    ot_pc,                 \* position of an earlier tick still in flight
    \* ---- AutoLoginManager (SpecWatch)
    alm_enabled,           \* configuration value AUTO_LOGIN_ENABLED
    alm_stop,              \* AutoLoginManager._stop_checking
    alm_is_checking,       \* AutoLoginManager._is_checking
    alm_pc,                \* position of the check thread ("none": no thread)
    alm_ev,                \* the last step of the check loop and its outcome
    \* ---- query_scores (SpecScores)
    qs_pc,                 \* "ready" before the call, "done" after it
    qs_input,              \* what the portal answers to the call's requests
    qs_result,             \* what the call returned and did
    \* ---- SessionManager save/load round trips (SpecStore)
    rt_saved,              \* per identity, the cookies of its last save
    rt_ev,                 \* the last SessionManager call and its outcome
    portal                 \* what the portal answers to the active session

loginVars   == <<pc, call, attempt, captcha_code, login_result, login_return>>
captchaVars == <<current_captcha_path, disk, cap, cap_return, acquired,
                 acq_count>>
storeVars   == <<session, session_files, accounts, current_account>>
histVars    == <<submits, fetches, only_bad_captcha, only_captcha_error,
                 login_exit>>
mainVars    == <<loginVars, captchaVars, storeVars, histVars>>
ownerVars   == <<call, attempt, captcha_code, login_result, login_return,
                 captchaVars, histVars>>
reqVars     == <<mr_pc, mr_method, mr_max_retries, mr_attempt, mr_calls,
                 mr_sleeps, mr_result, mr_outcomes>>
clVars      == <<cl_pc, cl_response, cl_result>>
supVars     == <<auto_login_enabled, current_student_id, check_timer,
                 login_in_progress, session_tokens, credentials_file, tk_pc,
                 ev, tk_ev>>
almVars     == <<alm_enabled, alm_stop, alm_is_checking, alm_pc, alm_ev>>
qsVars      == <<qs_pc, qs_input, qs_result>>
rtVars      == <<rt_saved, rt_ev, portal>>
otVars      == <<ot_pc>>
vars        == <<mainVars, reqVars, clVars, supVars, almVars, qsVars,
                 rtVars, otVars>>

(***************************************************************************)
(* Text                                                                    *)
(***************************************************************************)

\* Python: pat in s   (pat non-empty)
Contains(s, pat) ==
    \E i \in 1..(Len(s) - Len(pat) + 1) : SubSeq(s, i, i + Len(pat) - 1) = pat

\* Python: s.endswith(pat)
EndsWith(s, pat) ==
    /\ Len(s) >= Len(pat)
    /\ SubSeq(s, Len(s) - Len(pat) + 1, Len(s)) = pat

\* Python: str.lower() on one token
LowerToken(t) ==
    CASE t = "CAPTCHA"    -> "captcha"
      [] t = "Credential" -> "credential"
      [] OTHER            -> t

\* Python: s.lower()
Lower(s) == [i \in 1..Len(s) |-> LowerToken(s[i])]

\* all sequences over S of length at most n
RECURSIVE SeqsUpTo(_, _)
SeqsUpTo(S, n) ==
    IF n = 0 THEN {<<>>}
    ELSE LET shorter == SeqsUpTo(S, n - 1)
         IN  shorter \cup {Append(s, x) : s \in shorter, x \in S}

(***************************************************************************)
(* LoginManager._check_login_response                                      *)
(***************************************************************************)

\* markers searched for in the Location header (auth.py 407, 409)
BadCaptchaMarker     == <<"errorCode=badCaptcha">>
BadCredentialsMarker == <<"errorCode=badCredentials">>
LoginBadCaptcha      == <<"/login?", "errorCode=badCaptcha">>
LoginBadCredentials  == <<"/login?", "errorCode=badCredentials">>

\* keywords searched for in the error text (auth.py 435, 437); the three
\* Chinese keywords are written in pinyin
KwYanzhengma == <<"yanzhengma">>     \* "验证码"
KwCaptcha    == <<"captcha">>
KwYonghuming == <<"yonghuming">>     \* "用户名"
KwMima       == <<"mima">>           \* "密码"
KwCredential == <<"credential">>

Outcomes == {"success", "captcha_error", "credential_error", "unknown"}

\* requests.Response.__bool__ is Response.ok: false for a status of 400 or
\* more; make_request's failure value None is false as well.  This is the
\* test "not response" of auth.py 401.
Truthy(response) == response.present /\ response.status < 400

\* response.headers.get("Location", "")
LocationOf(response) ==
    IF response.has_location THEN response.location ELSE <<>>

\* first alert('...') message of a script with text, else the first
\* non-empty error/alert/message div, else None (has |-> FALSE)
RECURSIVE FirstAlert(_)
FirstAlert(scripts) ==
    IF scripts = <<>> THEN [has |-> FALSE, text |-> <<>>]
    ELSE IF Head(scripts).kind = "alert" /\ Head(scripts).text # <<>>
         THEN [has |-> TRUE, text |-> Head(scripts).text]
         ELSE FirstAlert(Tail(scripts))

RECURSIVE FirstDivText(_)
FirstDivText(divs) ==
    IF divs = <<>> THEN [has |-> FALSE, text |-> <<>>]
    ELSE IF Head(divs) # <<>>
         THEN [has |-> TRUE, text |-> Head(divs)]
         ELSE FirstDivText(Tail(divs))

extract_error_message(response) ==
    IF FirstAlert(response.scripts).has
    THEN FirstAlert(response.scripts)
    ELSE FirstDivText(response.divs)

\* faulty variant: only the suffix test of auth.py 407 is made
IsBadCaptchaLocationSuffixOnly(location) ==
    EndsWith(location, LoginBadCaptcha)

\* the test of auth.py 407
IsBadCaptchaLocation(location) ==
    \/ Contains(location, BadCaptchaMarker)
    \/ EndsWith(location, LoginBadCaptcha)

\* the test of auth.py 409
IsBadCredentialsLocation(location) ==
    EndsWith(location, LoginBadCredentials)

\* the tests of auth.py 435 and 437
HasCaptchaKeyword(msg) ==
    Contains(msg, KwYanzhengma) \/ Contains(Lower(msg), KwCaptcha)

HasCredentialKeyword(msg) ==
    \/ Contains(msg, KwYonghuming)
    \/ Contains(msg, KwMima)
    \/ Contains(Lower(msg), KwCredential)

check_login_response(response) ==
    IF ~Truthy(response) THEN "unknown"
    ELSE IF response.status = 302
    THEN IF IsBadCaptchaLocation(LocationOf(response)) THEN "captcha_error"
         ELSE IF IsBadCredentialsLocation(LocationOf(response))
              THEN "credential_error"
              ELSE "success"
    ELSE LET error_msg == extract_error_message(response)
         IN  IF error_msg.has /\ HasCaptchaKeyword(error_msg.text)
             THEN "captcha_error"
             ELSE IF error_msg.has /\ HasCredentialKeyword(error_msg.text)
                  THEN "credential_error"
                  ELSE "unknown"

(***************************************************************************)
(* Responses handed to _check_login_response                               *)
(***************************************************************************)

MaxLocLen  == 3      \* tokens in a Location header
MaxTextLen == 2      \* tokens in an alert message or an error div
MaxScripts == 1      \* <script> elements in a response body
MaxDivs    == 1      \* error/alert/message <div> elements in a body

LocTokens  == {"/login?", "/index", "errorCode=badCaptcha",
               "errorCode=badCredentials", "&lang=zh"}
TextTokens == {"yanzhengma", "CAPTCHA", "yonghuming", "mima", "Credential",
               "xitongfanmang"}

Locations == SeqsUpTo(LocTokens, MaxLocLen)
Texts     == SeqsUpTo(TextTokens, MaxTextLen)

\* a <script>: without text, with text but no alert(, or with alert('text');
\* an alert whose argument the pattern of auth.py 453 does not match has
\* text <<>>
Scripts == {[kind |-> "nostring", text |-> <<>>],
            [kind |-> "noalert", text |-> <<>>]}
           \cup {[kind |-> "alert", text |-> t] : t \in Texts}

\* make_request's failure value None
NoResponse ==
    [present |-> FALSE, status |-> 0, has_location |-> FALSE,
     location |-> <<>>, scripts |-> <<>>, divs |-> <<>>]

Redirect(has_location, location) ==
    [present |-> TRUE, status |-> 302, has_location |-> has_location,
     location |-> location, scripts |-> <<>>, divs |-> <<>>]

Page(status, scripts, divs) ==
    [present |-> TRUE, status |-> status, has_location |-> FALSE,
     location |-> <<>>, scripts |-> scripts, divs |-> divs]

ClassifyInputs ==
    {NoResponse}
    \cup {Redirect(FALSE, <<>>)}
    \cup {Redirect(TRUE, l) : l \in Locations}
    \cup {Page(st, sc, dv) : st \in {200, 500},
                             sc \in SeqsUpTo(Scripts, MaxScripts),
                             dv \in SeqsUpTo(Texts, MaxDivs)}

ClIdle ==
    /\ cl_pc = "idle"
    /\ cl_response = NoResponse
    /\ cl_result = "none"

ClInit ==
    /\ cl_pc = "start"
    /\ cl_response \in ClassifyInputs
    /\ cl_result = "none"

Classify ==
    /\ cl_pc = "start"
    /\ cl_result' = check_login_response(cl_response)
    /\ cl_pc' = "done"
    /\ UNCHANGED <<cl_response, mainVars, reqVars, supVars, almVars, qsVars,
                   rtVars, otVars>>

(***************************************************************************)
(* make_request (api.py 31-104), one loop iteration per step               *)
(***************************************************************************)

MaxRetries == 3      \* largest max_retries a caller passes

Methods == {"GET", "POST", "post", "DELETE"}

\* Python: method.upper()
Upper(method) ==
    CASE method = "post" -> "POST"
      [] OTHER           -> method

\* api.py 58, 65: the methods that reach the network
SupportedMethod(method) == Upper(method) \in {"GET", "POST"}

\* faulty variant: every error class is retried
RetryableAlways(outcome) == outcome \in {"timeout", "connection", "other"}

\* api.py 84, 92: the error classes that are retried
Retryable(outcome) == outcome \in {"timeout", "connection"}

\* faulty variant: gives up one attempt early
LastAttemptEarly(att, max_retries) == ~(att < max_retries - 2)

\* api.py 87, 95: "attempt < max_retries - 1" is false
LastAttempt(att, max_retries) == ~(att < max_retries - 1)

\* api.py 85, 93: wait_time = 2 ** attempt
RECURSIVE Pow2(_)
Pow2(n) == IF n = 0 THEN 1 ELSE 2 * Pow2(n - 1)

ReqIdle ==
    /\ mr_pc = "idle"
    /\ mr_method = "GET"
    /\ mr_max_retries = 0
    /\ mr_attempt = 0
    /\ mr_calls = 0
    /\ mr_sleeps = <<>>
    /\ mr_result = "none"
    /\ mr_outcomes = <<>>

\* a caller invokes make_request(url, method, max_retries = N)
MakeRequestCall ==
    /\ mr_pc \in {"idle", "done"}
    /\ \E m \in Methods, n \in 0..MaxRetries :
          /\ mr_method' = m
          /\ mr_max_retries' = n
    /\ mr_pc' = "loop"
    /\ mr_attempt' = 0
    /\ mr_calls' = 0
    /\ mr_sleeps' = <<>>
    /\ mr_result' = "pending"
    /\ mr_outcomes' = <<>>
    /\ UNCHANGED <<mainVars, clVars, supVars, almVars,
                   qsVars, rtVars, otVars>>

\* api.py 76-78: neither GET nor POST, return None before any network call
MakeRequestUnsupported ==
    /\ mr_pc = "loop"
    /\ mr_attempt < mr_max_retries
    /\ ~SupportedMethod(mr_method)
    /\ mr_result' = "none"
    /\ mr_pc' = "done"
    /\ UNCHANGED <<mr_method, mr_max_retries, mr_attempt, mr_calls,
                   mr_sleeps, mr_outcomes, mainVars, clVars, supVars, almVars,
                   qsVars, rtVars, otVars>>

\* api.py 59-83: the request is answered, return the response
MakeRequestAnswered ==
    /\ mr_pc = "loop"
    /\ mr_attempt < mr_max_retries
    /\ SupportedMethod(mr_method)
    /\ mr_calls' = mr_calls + 1
    /\ mr_outcomes' = Append(mr_outcomes, "ok")
    /\ mr_result' = "response"
    /\ mr_pc' = "done"
    /\ UNCHANGED <<mr_method, mr_max_retries, mr_attempt, mr_sleeps,
                   mainVars, clVars, supVars, almVars,
                   qsVars, rtVars, otVars>>

\* api.py 84-102: the request raises
MakeRequestError ==
    /\ mr_pc = "loop"
    /\ mr_attempt < mr_max_retries
    /\ SupportedMethod(mr_method)
    /\ \E outcome \in {"timeout", "connection", "other"} :
          /\ mr_calls' = mr_calls + 1
          /\ mr_outcomes' = Append(mr_outcomes, outcome)
          /\ IF Retryable(outcome) /\ ~LastAttempt(mr_attempt, mr_max_retries)
             THEN /\ mr_sleeps' = Append(mr_sleeps, Pow2(mr_attempt))
                  /\ mr_attempt' = mr_attempt + 1
                  /\ UNCHANGED <<mr_pc, mr_result>>
             ELSE /\ mr_result' = "none"
                  /\ mr_pc' = "done"
                  /\ UNCHANGED <<mr_sleeps, mr_attempt>>
    /\ UNCHANGED <<mr_method, mr_max_retries, mainVars, clVars, supVars, almVars,
                   qsVars, rtVars, otVars>>

\* api.py 104: the loop ran out of iterations
MakeRequestExhausted ==
    /\ mr_pc = "loop"
    /\ ~(mr_attempt < mr_max_retries)
    /\ mr_result' = "none"
    /\ mr_pc' = "done"
    /\ UNCHANGED <<mr_method, mr_max_retries, mr_attempt, mr_calls,
                   mr_sleeps, mr_outcomes, mainVars, clVars, supVars, almVars,
                   qsVars, rtVars, otVars>>

(***************************************************************************)
(* CaptchaHandler (auth.py 66-218)                                         *)
(***************************************************************************)

MaxFiles          == 2    \* distinct captcha file names in use at a time
MaxCaptchaRetries == 2    \* largest max_retries passed to get_captcha
MaxFetches        == 3    \* fetches is counted up to this value

DefaultCaptchaRetries == 10   \* get_captcha(max_retries: int = 10)
DefaultCaptchaDelay   == 5    \* get_captcha(delay: float = 0.5), in tenths
                              \* of a second

\* the delay values passed to get_captcha, in tenths of a second
CaptchaDelays == {DefaultCaptchaDelay, 2 * DefaultCaptchaDelay}

FileIds == 1..MaxFiles    \* 0 stands for None

\* delete_current (auth.py 205-213): the reference after the call
DeletedPath(path, files) ==
    IF path # 0 /\ path \in files THEN 0 ELSE path

\* faulty variant: the reference is dropped, the file is left behind
DeletedDiskKeepsFile(path, files) == files

\* delete_current (auth.py 205-213): TEMP_DIR after the call
DeletedDisk(path, files) ==
    IF path # 0 /\ path \in files THEN files \ {path} ELSE files

\* _clean_old_captchas (auth.py 76-90): TEMP_DIR after the sweep
SweptDisk(files) == {}

\* get_captcha (auth.py 106): the old image is deleted first
DeletesFirst(refresh, path) == refresh \/ path = 0

\* get_captcha (auth.py 110): the current image is returned as it is
Cached(refresh, path, files) == ~refresh /\ path # 0 /\ path \in files

NoCall == [ret |-> "idle", max_retries |-> 0, attempt |-> 0, delay |-> 0,
           rejected |-> "none", slept |-> 0]

\* get_captcha (auth.py 105-111) entered from position ret; when it has to
\* fetch, the fetch loop returns to position ret
get_captcha(refresh, max_retries, delay, ret) ==
    LET path  == IF DeletesFirst(refresh, current_captcha_path)
                 THEN DeletedPath(current_captcha_path, disk)
                 ELSE current_captcha_path
        files == IF DeletesFirst(refresh, current_captcha_path)
                 THEN DeletedDisk(current_captcha_path, disk)
                 ELSE disk
    IN  /\ current_captcha_path' = path
        /\ disk' = files
        /\ acquired' = acquired \cap files
        /\ IF Cached(refresh, path, files)
           THEN /\ cap_return' = path
                /\ pc' = ret
                /\ cap' = NoCall
           ELSE /\ cap' = [ret |-> ret, max_retries |-> max_retries,
                           attempt |-> 0, delay |-> delay,
                           rejected |-> "none", slept |-> 0]
                /\ pc' = "cap_fetch"
                /\ UNCHANGED cap_return
        /\ UNCHANGED acq_count

\* delete_current (auth.py 205-213) as a step of a larger action
delete_current ==
    /\ current_captcha_path' = DeletedPath(current_captcha_path, disk)
    /\ disk' = DeletedDisk(current_captcha_path, disk)
    /\ acquired' = acquired \cap DeletedDisk(current_captcha_path, disk)
    /\ UNCHANGED <<cap, cap_return, acq_count>>

\* CaptchaHandler.get_captcha(refresh, max_retries) called by the owner
GetCaptchaCall ==
    /\ pc = "idle"
    /\ \E refresh \in BOOLEAN, n \in 0..MaxCaptchaRetries,
          delay \in CaptchaDelays :
          get_captcha(refresh, n, delay, "cap_ret")
    /\ UNCHANGED <<call, attempt, captcha_code, login_result, login_return,
                   storeVars, histVars, reqVars, clVars, supVars, almVars,
                   qsVars, rtVars, otVars>>

\* CaptchaHandler.refresh() called by the owner (auth.py 201-203)
RefreshCall ==
    /\ pc = "idle"
    /\ get_captcha(TRUE, DefaultCaptchaRetries, DefaultCaptchaDelay, "cap_ret")
    /\ UNCHANGED <<call, attempt, captcha_code, login_result, login_return,
                   storeVars, histVars, reqVars, clVars, supVars, almVars,
                   qsVars, rtVars, otVars>>

\* CaptchaHandler.delete_current() called by the owner
DeleteCurrentCall ==
    /\ pc = "idle"
    /\ delete_current
    /\ UNCHANGED <<loginVars, storeVars, histVars, reqVars, clVars, supVars, almVars,
                   qsVars, rtVars, otVars>>

\* CaptchaHandler.cleanup() (auth.py 215-218)
CleanupCall ==
    /\ pc = "idle"
    /\ current_captcha_path' = DeletedPath(current_captcha_path, disk)
    /\ disk' = SweptDisk(DeletedDisk(current_captcha_path, disk))
    /\ acquired' = acquired \cap disk'
    /\ UNCHANGED <<cap, cap_return, acq_count, loginVars, storeVars,
                   histVars, reqVars, clVars, supVars, almVars,
                   qsVars, rtVars, otVars>>

\* another CaptchaHandler is constructed (auth.py 69-74): its __init__
\* sweeps TEMP_DIR; the handler modelled here keeps its reference
NewCaptchaHandler ==
    /\ pc = "idle"
    /\ disk # {}
    /\ disk' = SweptDisk(disk)
    /\ acquired' = acquired \cap disk'
    /\ UNCHANGED <<current_captcha_path, cap, cap_return, acq_count,
                   loginVars, storeVars, histVars, reqVars, clVars, supVars, almVars,
                   qsVars, rtVars, otVars>>

\* fetches made on behalf of login() are counted
InLogin == cap.ret # "cap_ret"

CountFetch ==
    fetches' = IF InLogin /\ fetches < MaxFetches THEN fetches + 1
               ELSE fetches

\* the ways an iteration of the fetch loop is rejected: no response or a
\* status other than 200 (auth.py 130-132), a body under 1024 bytes
\* (135-137), an image that fails verify() and is removed again (158-163),
\* a raised error (165-167)
RejectionKinds == {"no_response", "undersized", "corrupt", "error"}

\* the argument of time.sleep after a rejected attempt (auth.py 132, 137,
\* 162, 167)
RejectionWait(kind, index, delay) ==
    IF kind = "corrupt" THEN delay ELSE delay * (index + 1)

\* one iteration of the fetch loop (auth.py 114-167) that is rejected; the
\* loop sleeps and goes on to the next attempt index
CaptchaAttemptRejected ==
    /\ pc = "cap_fetch"
    /\ cap.attempt < cap.max_retries
    /\ \E kind \in RejectionKinds :
          cap' = [cap EXCEPT !.attempt = @ + 1,
                             !.rejected = kind,
                             !.slept = RejectionWait(kind, cap.attempt,
                                                     cap.delay)]
    /\ CountFetch
    /\ UNCHANGED <<current_captcha_path, disk, cap_return, acquired,
                   acq_count, loginVars, storeVars, submits,
                   only_bad_captcha, only_captcha_error, login_exit,
                   reqVars, clVars, supVars, almVars,
                   qsVars, rtVars, otVars>>

\* one iteration of the fetch loop that saves a verified image
\* (auth.py 141-157)
CaptchaAttemptSaved ==
    /\ pc = "cap_fetch"
    /\ cap.attempt < cap.max_retries
    /\ \E f \in FileIds \ (disk \cup {current_captcha_path}) :
          /\ disk' = disk \cup {f}
          /\ acquired' = acquired \cup {f}
          /\ current_captcha_path' = f
          /\ cap_return' = f
    /\ acq_count' = IF acq_count < 2 THEN acq_count + 1 ELSE acq_count
    /\ CountFetch
    /\ pc' = cap.ret
    /\ cap' = NoCall
    /\ UNCHANGED <<call, attempt, captcha_code, login_result,
                   login_return, storeVars, submits, only_bad_captcha,
                   only_captcha_error, login_exit, reqVars, clVars, supVars, almVars,
                   qsVars, rtVars, otVars>>

\* the fetch loop ran out of iterations (auth.py 169-170)
CaptchaExhausted ==
    /\ pc = "cap_fetch"
    /\ ~(cap.attempt < cap.max_retries)
    /\ cap_return' = 0
    /\ pc' = cap.ret
    /\ cap' = NoCall
    /\ UNCHANGED <<current_captcha_path, disk, acquired, acq_count,
                   call, attempt, captcha_code, login_result, login_return,
                   storeVars, histVars, reqVars, clVars, supVars, almVars,
                   qsVars, rtVars, otVars>>

\* the owner has the value get_captcha() returned
CaptchaReturned ==
    /\ pc = "cap_ret"
    /\ pc' = "idle"
    /\ cap_return' = 0
    /\ UNCHANGED <<current_captcha_path, disk, cap, acquired, acq_count,
                   call, attempt, captcha_code, login_result, login_return,
                   storeVars, histVars, reqVars, clVars, supVars, almVars,
                   qsVars, rtVars, otVars>>

(***************************************************************************)
(* SessionManager.save_session (session.py 82-106)                         *)
(***************************************************************************)

Identities == {"", "2021001", "2021002"}    \* student_id values
Cookies    == {"none", "JSESSIONID=1"}
NoFile     == "absent"

\* session.py 84: "if not student_id" refuses the empty identity
Saves(student_id) == student_id # ""

\* faulty variant: the file and the registry are written, the current
\* account is not set
save_session_keeps_current(student_id) ==
    IF Saves(student_id)
    THEN /\ session_files' = [session_files EXCEPT ![student_id] = session]
         /\ accounts' = accounts \cup {student_id}
         /\ UNCHANGED current_account
    ELSE UNCHANGED <<session_files, accounts, current_account>>

save_session(student_id) ==
    IF Saves(student_id)
    THEN /\ session_files' = [session_files EXCEPT ![student_id] = session]
         /\ accounts' = accounts \cup {student_id}
         /\ current_account' = student_id
    ELSE UNCHANGED <<session_files, accounts, current_account>>

(***************************************************************************)
(* LoginManager.login (auth.py 275-366)                                    *)
(***************************************************************************)

MaxAttempts == 2     \* largest max_attempts passed to login

\* the answers of the portal to the credential form
LoginResponses ==
    {NoResponse,
     Redirect(TRUE, LoginBadCaptcha),
     Redirect(TRUE, LoginBadCredentials),
     Redirect(TRUE, <<"/index">>),
     Page(200, <<[kind |-> "alert", text |-> <<"mima", "xitongfanmang">>]>>,
          <<>>),
     Page(200, <<>>, <<>>)}

\* faulty variant: one iteration too many
LoopRunsOnceMore(att, max_attempts) == att <= max_attempts

\* auth.py 294: for attempt in range(max_attempts)
LoopRuns(att, max_attempts) == att < max_attempts

\* auth.py 346: "if save_session and self.session_manager"
PersistsSession(c) == c.save_session /\ c.has_session_manager

\* faulty variant: no classification leaves the loop
BreaksNever(result) == FALSE

\* auth.py 354-356: the classification that leaves the loop with break
Breaks(result) == result = "credential_error"

NoLogin ==
    [student_id |-> "", max_attempts |-> 0, save_session |-> FALSE,
     has_session_manager |-> FALSE, gui_mode |-> FALSE]

\* login(student_id, password, max_attempts, save_session, captcha_code)
\* is called on a LoginManager with or without a session manager, in GUI
\* mode or not
LoginCall ==
    /\ pc = "idle"
    /\ \E id \in Identities, n \in 0..MaxAttempts, sv \in BOOLEAN,
          sm \in BOOLEAN, gui \in BOOLEAN, code \in {"none", "code"} :
          /\ call' = [student_id |-> id, max_attempts |-> n,
                      save_session |-> sv, has_session_manager |-> sm,
                      gui_mode |-> gui]
          /\ captcha_code' = code
    /\ pc' = "login_init"
    /\ attempt' = 0
    /\ login_result' = "none"
    /\ login_return' = "none"
    /\ submits' = 0
    /\ fetches' = 0
    /\ only_bad_captcha' = TRUE
    /\ only_captcha_error' = TRUE
    /\ login_exit' = "none"
    /\ UNCHANGED <<captchaVars, storeVars, reqVars, clVars, supVars, almVars,
                   qsVars, rtVars, otVars>>

\* login() returns value through the return statement named by exit
Return(value, exit) ==
    /\ pc' = "login_ret"
    /\ login_return' = value
    /\ login_exit' = exit

\* init_session() fails (auth.py 243-246, 290-291): no response or a
\* status other than 200
InitSessionFails ==
    /\ pc = "login_init"
    /\ Return("false", "init_failed")
    /\ UNCHANGED <<call, attempt, captcha_code, login_result, captchaVars,
                   storeVars, submits, fetches, only_bad_captcha,
                   only_captcha_error, reqVars, clVars, supVars, almVars,
                   qsVars, rtVars, otVars>>

\* init_session() succeeds (auth.py 248-273); the portal may set a cookie
InitSessionSucceeds ==
    /\ pc = "login_init"
    /\ session' \in Cookies
    /\ pc' = "login_loop"
    /\ UNCHANGED <<call, attempt, captcha_code, login_result, login_return,
                   captchaVars, session_files, accounts, current_account,
                   histVars, reqVars, clVars, supVars, almVars,
                   qsVars, rtVars, otVars>>

\* auth.py 294, 362-366: the loop is over, clean up and return False
LoginExhausted ==
    /\ pc = "login_loop"
    /\ ~LoopRuns(attempt, call.max_attempts)
    /\ delete_current
    /\ Return("false", "exhausted")
    /\ UNCHANGED <<call, attempt, captcha_code, login_result, storeVars,
                   submits, fetches, only_bad_captcha, only_captcha_error,
                   reqVars, clVars, supVars, almVars,
                   qsVars, rtVars, otVars>>

\* auth.py 298-299: no captcha code, refresh the CAPTCHA
LoginRefresh ==
    /\ pc = "login_loop"
    /\ LoopRuns(attempt, call.max_attempts)
    /\ captcha_code = "none"
    /\ get_captcha(TRUE, DefaultCaptchaRetries, DefaultCaptchaDelay,
                   "login_captcha")
    /\ UNCHANGED <<call, attempt, captcha_code, login_result, login_return,
                   storeVars, histVars, reqVars, clVars, supVars, almVars,
                   qsVars, rtVars, otVars>>

\* auth.py 298: a captcha code is at hand, go on to submit
LoginHasCode ==
    /\ pc = "login_loop"
    /\ LoopRuns(attempt, call.max_attempts)
    /\ captcha_code # "none"
    /\ pc' = "login_submit"
    /\ UNCHANGED <<call, attempt, captcha_code, login_result, login_return,
                   captchaVars, storeVars, histVars, reqVars, clVars, supVars, almVars,
                   qsVars, rtVars, otVars>>

\* auth.py 300-302: no CAPTCHA could be fetched
LoginNoCaptcha ==
    /\ pc = "login_captcha"
    /\ cap_return = 0
    /\ Return("false", "no_captcha")
    /\ UNCHANGED <<call, attempt, captcha_code, login_result, captchaVars,
                   storeVars, submits, fetches, only_bad_captcha,
                   only_captcha_error, reqVars, clVars, supVars, almVars,
                   qsVars, rtVars, otVars>>

\* auth.py 306-307: outside GUI mode the user is asked for the code; in GUI
\* mode the form is submitted with the code as it is
LoginGotCaptcha ==
    /\ pc = "login_captcha"
    /\ cap_return # 0
    /\ cap_return' = 0
    /\ pc' = IF call.gui_mode THEN "login_submit" ELSE "login_input"
    /\ UNCHANGED <<call, attempt, captcha_code, login_result, login_return,
                   current_captcha_path, disk, cap, acquired, acq_count,
                   storeVars, histVars, reqVars, clVars, supVars, almVars,
                   qsVars, rtVars, otVars>>

\* _get_captcha_input, option 1 with a non-empty code (auth.py 373-377)
InputCode ==
    /\ pc = "login_input"
    /\ captcha_code' = "code"
    /\ pc' = "login_submit"
    /\ UNCHANGED <<call, attempt, login_result, login_return, captchaVars,
                   storeVars, histVars, reqVars, clVars, supVars, almVars,
                   qsVars, rtVars, otVars>>

\* _get_captcha_input, option 2 (auth.py 380-384): refresh, then ask again
InputRefresh ==
    /\ pc = "login_input"
    /\ get_captcha(TRUE, DefaultCaptchaRetries, DefaultCaptchaDelay,
                   "login_refreshed")
    /\ UNCHANGED <<call, attempt, captcha_code, login_result, login_return,
                   storeVars, histVars, reqVars, clVars, supVars, almVars,
                   qsVars, rtVars, otVars>>

\* _get_captcha_input (auth.py 383-384): whatever refresh() returned, the
\* menu is shown again
InputRefreshed ==
    /\ pc = "login_refreshed"
    /\ cap_return' = 0
    /\ pc' = "login_input"
    /\ UNCHANGED <<call, attempt, captcha_code, login_result, login_return,
                   current_captcha_path, disk, cap, acquired, acq_count,
                   storeVars, histVars, reqVars, clVars, supVars, almVars,
                   qsVars, rtVars, otVars>>

\* _get_captcha_input, option 3 (auth.py 385-388, 308-309): cancel
InputCancel ==
    /\ pc = "login_input"
    /\ delete_current
    /\ Return("false", "cancelled")
    /\ UNCHANGED <<call, attempt, captcha_code, login_result, storeVars,
                   submits, fetches, only_bad_captcha, only_captcha_error,
                   reqVars, clVars, supVars, almVars,
                   qsVars, rtVars, otVars>>

\* auth.py 311-339: the form is posted and the answer classified
LoginSubmit ==
    /\ pc = "login_submit"
    /\ \E response \in LoginResponses, cookie \in Cookies :
          /\ login_result' = check_login_response(response)
          /\ only_bad_captcha' =
                (only_bad_captcha /\ response = Redirect(TRUE, LoginBadCaptcha))
          /\ only_captcha_error' =
                (only_captcha_error
                 /\ check_login_response(response) = "captcha_error")
          /\ session' = IF response.present THEN cookie ELSE session
    /\ submits' = submits + 1
    /\ pc' = "login_branch"
    /\ UNCHANGED <<call, attempt, captcha_code, login_return, captchaVars,
                   session_files, accounts, current_account, fetches,
                   login_exit, reqVars, clVars, supVars, almVars,
                   qsVars, rtVars, otVars>>

\* auth.py 340-349: success
LoginSuccess ==
    /\ pc = "login_branch"
    /\ login_result = "success"
    /\ delete_current
    /\ IF PersistsSession(call)
       THEN save_session(call.student_id)
       ELSE UNCHANGED <<session_files, accounts, current_account>>
    /\ Return("true", "success")
    /\ UNCHANGED <<call, attempt, captcha_code, login_result, session, submits,
                   fetches, only_bad_captcha, only_captcha_error, reqVars,
                   clVars, supVars, almVars,
                   qsVars, rtVars, otVars>>

\* auth.py 350-353, 357-360: captcha_error or unknown, next iteration
LoginRetry ==
    /\ pc = "login_branch"
    /\ login_result # "success"
    /\ ~Breaks(login_result)
    /\ captcha_code' = "none"
    /\ attempt' = attempt + 1
    /\ pc' = "login_loop"
    /\ UNCHANGED <<call, login_result, login_return, captchaVars, storeVars,
                   histVars, reqVars, clVars, supVars, almVars,
                   qsVars, rtVars, otVars>>

\* auth.py 354-356, 362-366: credential_error leaves the loop
LoginCredentialError ==
    /\ pc = "login_branch"
    /\ login_result # "success"
    /\ Breaks(login_result)
    /\ delete_current
    /\ Return("false", "credential_error")
    /\ UNCHANGED <<call, attempt, captcha_code, login_result, storeVars,
                   submits, fetches, only_bad_captcha, only_captcha_error,
                   reqVars, clVars, supVars, almVars,
                   qsVars, rtVars, otVars>>

\* the caller has the value login() returned
LoginReturned ==
    /\ pc = "login_ret"
    /\ pc' = "idle"
    /\ call' = NoLogin
    /\ attempt' = 0
    /\ captcha_code' = "none"
    /\ login_result' = "none"
    /\ login_return' = "none"
    /\ cap_return' = 0
    /\ submits' = 0
    /\ fetches' = 0
    /\ only_bad_captcha' = TRUE
    /\ only_captcha_error' = TRUE
    /\ login_exit' = "none"
    /\ UNCHANGED <<current_captcha_path, disk, cap, acquired, acq_count,
                   storeVars, reqVars, clVars, supVars, almVars,
                   qsVars, rtVars, otVars>>

(***************************************************************************)
(* SessionManager.verify_session, load_session, delete_account             *)
(* (session.py 108-187)                                                    *)
(***************************************************************************)

\* what the GET of SCORES_URL gives verify_session: no response, or a page
\* with a status, a final URL that is the login page or not, and a body in
\* which extract_student_name finds a name or not
NoPage == [present |-> FALSE, status |-> 0, url_login |-> FALSE,
           has_name |-> FALSE]

ScoresPage(status, url_login, has_name) ==
    [present |-> TRUE, status |-> status, url_login |-> url_login,
     has_name |-> has_name]

VerifyResponses ==
    {NoPage, ScoresPage(500, FALSE, FALSE), ScoresPage(200, TRUE, FALSE),
     ScoresPage(200, TRUE, TRUE), ScoresPage(200, FALSE, FALSE),
     ScoresPage(200, FALSE, TRUE)}

\* session.py 130-134: the identity verify_session works with; None and the
\* empty string end the call before any request
VerifiedIdentity(student_id) ==
    IF student_id = "none" THEN current_account ELSE student_id

IssuesVerifyRequest(student_id) ==
    VerifiedIdentity(student_id) \notin {"none", ""}

\* faulty variant: the student name is not looked for
ValidPageWithoutName(resp) ==
    /\ resp.present
    /\ resp.status = 200
    /\ ~resp.url_login

\* session.py 141-149: the response that makes the session count as valid
ValidPage(resp) ==
    /\ resp.present
    /\ resp.status = 200
    /\ ~resp.url_login
    /\ resp.has_name

\* faulty variant: a session found valid by one call is found invalid by
\* the call that follows it
verify_session_once(student_id, resp) ==
    /\ IssuesVerifyRequest(student_id)
    /\ ValidPage(resp)
    /\ ~(rt_ev.op = "verify" /\ rt_ev.ret = "true")

\* SessionManager.verify_session(student_id) when the portal answers resp
verify_session(student_id, resp) ==
    IssuesVerifyRequest(student_id) /\ ValidPage(resp)

\* faulty variant: a missing session file does not stop the load
LoadsAlways(student_id) == student_id \in DOMAIN session_files

\* session.py 110-113: load_session finds the session file
Loads(student_id) ==
    student_id \in DOMAIN session_files /\ session_files[student_id] # NoFile

\* faulty variant: the current account is set, the loaded session is not
\* installed
load_session_keeps_active(student_id) ==
    IF Loads(student_id)
    THEN /\ current_account' = student_id
         /\ UNCHANGED <<session, session_files, accounts>>
    ELSE UNCHANGED <<session, session_files, accounts, current_account>>

\* SessionManager.load_session(student_id) (session.py 108-126)
load_session(student_id) ==
    IF Loads(student_id)
    THEN /\ session' = session_files[student_id]
         /\ current_account' = student_id
         /\ UNCHANGED <<session_files, accounts>>
    ELSE UNCHANGED <<session, session_files, accounts, current_account>>

\* faulty variant: the current account is left in place
delete_account_keeps_current(student_id) ==
    /\ session_files' = [id \in DOMAIN session_files |->
                           IF id = student_id THEN NoFile
                           ELSE session_files[id]]
    /\ accounts' = accounts \ {student_id}
    /\ UNCHANGED <<session, current_account>>

\* SessionManager.delete_account(student_id) (session.py 166-187)
delete_account(student_id) ==
    /\ session_files' = [id \in DOMAIN session_files |->
                           IF id = student_id THEN NoFile
                           ELSE session_files[id]]
    /\ accounts' = accounts \ {student_id}
    /\ current_account' = IF current_account = student_id THEN "none"
                          ELSE current_account
    /\ UNCHANGED session

(***************************************************************************)
(* AutoSessionManager (session.py 195-402)                                 *)
(***************************************************************************)

\* a Saved Token Record; cookies stands for the cookies and the headers of
\* the snapshot; last_verified is the time of the write that set it, named
\* by the operation that made the write ("save" or "relogin"); last_saved
\* is written together with last_verified and never again
NoRecord == [present |-> FALSE, cookies |-> "none", session_valid |-> FALSE,
             last_verified |-> "never"]

\* session.py 266: "student_id not in self.session_tokens" is false
HasRecord(tokens, student_id) ==
    student_id \in DOMAIN tokens /\ tokens[student_id].present

\* save_session_info (session.py 248-256): the record written
Snapshot(cookies) ==
    [present |-> TRUE, cookies |-> cookies, session_valid |-> TRUE,
     last_verified |-> "save"]

\* restore_session_from_tokens (session.py 275-276): cookies.update and
\* headers.update on the active session
Updated(active, cookies) == IF cookies = "none" THEN active ELSE cookies

\* what a step reported and how: who took it, the operation, the value
\* returned, the HTTP request issued, what verify_session returned to the
\* operation and the channel on which the outcome was surfaced
Ev(who, op, ret, request, verified, report) ==
    [who |-> who, op |-> op, ret |-> ret, request |-> request,
     verified |-> verified, report |-> report]

NoEv == Ev("none", "none", "none", "none", "none", "none")

\* the request verify_session(student_id) issues, if any
VerifyRequest(student_id) ==
    IF IssuesVerifyRequest(student_id) THEN "verify" ELSE "none"

\* _start_check_timer (session.py 323-330): the old timer is cancelled and
\* a new one is started
StartedTimer == "pending"

SupIdle ==
    /\ auto_login_enabled = FALSE
    /\ current_student_id = "none"
    /\ check_timer = "none"
    /\ login_in_progress = FALSE
    /\ session_tokens = [id \in Identities |-> NoRecord]
    /\ credentials_file = [id \in Identities |-> NoRecord]
    /\ tk_pc = "none"
    /\ ot_pc = "none"
    /\ ev = NoEv
    /\ tk_ev = NoEv

\* faulty variant: the supervisor is switched on whatever the checks say
EnablesAlways(student_id, resp, snapshot_ok) == TRUE

\* enable_auto_login (session.py 287-300): the three checks passed
Enables(student_id, resp, snapshot_ok) ==
    /\ current_account = student_id
    /\ verify_session(student_id, resp)
    /\ snapshot_ok

\* the responses and save outcomes enable_auto_login gets to see: it asks
\* for the page only when the account matches, and saves only when the
\* session verified
EnableInputs(student_id) ==
    IF current_account # student_id
    THEN {<<NoPage, FALSE>>}
    ELSE {<<resp, FALSE>> : resp \in VerifyResponses} \cup
         {<<resp, TRUE>> :
             resp \in {r \in VerifyResponses : verify_session(student_id, r)}}

\* AutoSessionManager.enable_auto_login(student_id) (session.py 284-310);
\* snapshot_ok is false when save_session_info ends in its except branch
EnableAutoLogin ==
    /\ pc = "idle"
    /\ pc' = "sup_ret"
    /\ \E student_id \in Identities \cup {"none"} :
       \E input \in EnableInputs(student_id) :
          LET resp        == input[1]
              snapshot_ok == input[2]
              request     == IF current_account = student_id
                             THEN VerifyRequest(student_id) ELSE "none"
              verified    == IF current_account # student_id THEN "none"
                             ELSE IF verify_session(student_id, resp)
                             THEN "true" ELSE "false"
          IN  IF Enables(student_id, resp, snapshot_ok)
              THEN /\ student_id \in DOMAIN session_tokens
                   /\ session_tokens' =
                         [session_tokens EXCEPT
                             ![student_id] = Snapshot(session)]
                   /\ credentials_file' = session_tokens'
                   /\ auto_login_enabled' = TRUE
                   /\ current_student_id' = student_id
                   /\ check_timer' = StartedTimer
                   /\ ev' = Ev("owner", "enable", "true", request, verified,
                               "log")
              ELSE /\ ev' = Ev("owner", "enable", "false", request, verified,
                               "log")
                   /\ UNCHANGED <<session_tokens, credentials_file,
                                  auto_login_enabled, current_student_id,
                                  check_timer>>
    /\ UNCHANGED <<login_in_progress, tk_pc, tk_ev, ownerVars, storeVars, reqVars, clVars, almVars,
                   qsVars, rtVars, otVars>>

\* faulty variant: the record of the monitored identity is dropped
DisabledTokensDropsRecord(tokens, student_id) ==
    [id \in DOMAIN tokens |-> IF id = student_id THEN NoRecord ELSE tokens[id]]

\* disable_auto_login (session.py 312-321): session_tokens after the call
DisabledTokens(tokens, student_id) == tokens

\* AutoSessionManager.disable_auto_login() (session.py 312-321)
disable_auto_login ==
    /\ auto_login_enabled' = FALSE
    /\ current_student_id' = "none"
    /\ check_timer' = "none"
    /\ session_tokens' = DisabledTokens(session_tokens, current_student_id)

DisableAutoLogin ==
    /\ pc = "idle"
    /\ pc' = "sup_ret"
    /\ disable_auto_login
    /\ ev' = Ev("owner", "disable", "none", "none", "none", "log")
    /\ UNCHANGED <<credentials_file, login_in_progress, tk_pc, tk_ev,
                   ownerVars, storeVars, reqVars, clVars, almVars,
                   qsVars, rtVars, otVars>>

\* AutoSessionManager.cleanup() (session.py 398-402)
SupCleanup ==
    /\ pc = "idle"
    /\ pc' = "sup_ret"
    /\ disable_auto_login
    /\ credentials_file' = session_tokens'
    /\ ev' = Ev("owner", "cleanup", "none", "none", "none", "log")
    /\ UNCHANGED <<login_in_progress, tk_pc, tk_ev, ownerVars, storeVars, reqVars, clVars, almVars,
                   qsVars, rtVars, otVars>>

\* AutoSessionManager.save_session_info(student_id) called by the owner
\* (session.py 240-262)
SaveSessionInfo ==
    /\ pc = "idle"
    /\ pc' = "sup_ret"
    /\ \E student_id \in Identities \ {""}, snapshot_ok \in BOOLEAN :
          IF snapshot_ok
          THEN /\ session_tokens' =
                     [session_tokens EXCEPT
                         ![student_id] = Snapshot(session)]
               /\ credentials_file' = session_tokens'
               /\ ev' = Ev("owner", "save_session_info", "true",
                           "none", "none", "log")
          ELSE /\ ev' = Ev("owner", "save_session_info", "false",
                           "none", "none", "log")
               /\ UNCHANGED <<session_tokens, credentials_file>>
    /\ UNCHANGED <<auto_login_enabled, current_student_id, check_timer,
                   login_in_progress, tk_pc, tk_ev, ownerVars, storeVars, reqVars, clVars, almVars,
                   qsVars, rtVars, otVars>>

\* the owner logs in interactively (ui/screens/login_screen.py 570-617, or
\* LoginManager.login): the handshake sets the cookies of the active
\* session, and a login classified success saves the session
InteractiveLogin ==
    /\ pc = "idle"
    /\ pc' = "sup_ret"
    /\ \E student_id \in Identities \ {""}, cookie \in Cookies,
          success \in BOOLEAN :
          /\ session' = cookie
          /\ IF success
             THEN save_session(student_id)
             ELSE UNCHANGED <<session_files, accounts, current_account>>
          /\ ev' = Ev("owner", "login",
                      IF success THEN "true" ELSE "false", "login_post", "none",
                      "log")
    /\ UNCHANGED <<ownerVars, auto_login_enabled,
                   current_student_id, check_timer, login_in_progress,
                   session_tokens, credentials_file, tk_pc, tk_ev, reqVars,
                   clVars, almVars,
                   qsVars, rtVars, otVars>>

\* the owner has the value the call returned
SupReturned ==
    /\ pc = "sup_ret"
    /\ pc' = "idle"
    /\ ev' = NoEv
    /\ UNCHANGED <<auto_login_enabled, current_student_id, check_timer,
                   login_in_progress, session_tokens, credentials_file,
                   tk_pc, tk_ev, ownerVars, storeVars, reqVars, clVars, almVars,
                   qsVars, rtVars, otVars>>

\* the steps of the timer thread are taken between the calls of the owner

\* the Timer check_timer refers to fires and its thread enters
\* _check_session_status (session.py 328-330)
TimerFires ==
    /\ pc = "idle"
    /\ check_timer = "pending"
    /\ tk_pc = "none"
    /\ check_timer' = "fired"
    /\ tk_pc' = "entry"
    /\ tk_ev' = Ev("tick", "fire", "none", "none", "none", "none")
    /\ UNCHANGED <<ev, auto_login_enabled, current_student_id,
                   login_in_progress, session_tokens, credentials_file,
                   mainVars, reqVars, clVars, almVars,
                   qsVars, rtVars, otVars>>

\* the Timer check_timer refers to fires while the thread of an earlier
\* Timer is still inside _check_session_status: cancel() (session.py
\* 325-326) does not stop a Timer that has fired, and enable_auto_login
\* starts a new one whatever the earlier one is doing
TimerFiresOverTick ==
    /\ pc = "idle"
    /\ check_timer = "pending"
    /\ tk_pc # "none"
    /\ ot_pc = "none"
    /\ ot_pc' = tk_pc
    /\ check_timer' = "fired"
    /\ tk_pc' = "entry"
    /\ tk_ev' = Ev("tick", "fire", "none", "none", "none", "none")
    /\ UNCHANGED <<ev, auto_login_enabled, current_student_id,
                   login_in_progress, session_tokens, credentials_file,
                   mainVars, reqVars, clVars, almVars, qsVars, rtVars>>

\* faulty variant: the tick goes on although the supervisor is off
TickReturnsAtOnceNever == FALSE

\* session.py 334-335: "if not self.auto_login_enabled or not
\* self.current_student_id: return"
TickReturnsAtOnce == ~auto_login_enabled \/ current_student_id = "none"

\* _check_session_status (session.py 334-342): return when the supervisor
\* is off, reschedule and return when a relogin is in progress
TickEntryStep(here, there) ==
    /\ here = "entry"
    /\ IF TickReturnsAtOnce
       THEN /\ there = "none"
            /\ UNCHANGED check_timer
       ELSE IF login_in_progress
       THEN /\ there = "none"
            /\ check_timer' = StartedTimer
       ELSE /\ there = "verify"
            /\ UNCHANGED check_timer
    /\ tk_ev' = IF there = "none" THEN NoEv
                 ELSE Ev("tick", "entry", "none", "none", "none", "none")
    /\ UNCHANGED <<ev, auto_login_enabled, current_student_id,
                   login_in_progress, session_tokens, credentials_file,
                   mainVars, reqVars, clVars, almVars,
                   qsVars, rtVars>>

TickEntry ==
    /\ pc = "idle"
    /\ TickEntryStep(tk_pc, tk_pc')
    /\ UNCHANGED ot_pc

\* the same step taken by the earlier tick
EarlierTickEntry ==
    /\ pc = "idle"
    /\ TickEntryStep(ot_pc, ot_pc')
    /\ UNCHANGED tk_pc

\* _check_session_status (session.py 345-349): verify the session
TickVerifyStep(here, there) ==
    /\ here = "verify"
    /\ \E resp \in VerifyResponses :
          /\ there = IF verify_session(current_student_id, resp)
                      THEN "restart_test" ELSE "relogin"
          /\ tk_ev' = Ev("tick", "verify",
                      IF verify_session(current_student_id, resp)
                      THEN "true" ELSE "false",
                      VerifyRequest(current_student_id), "none", "log")
    /\ UNCHANGED <<ev, auto_login_enabled, current_student_id, check_timer,
                   login_in_progress, session_tokens, credentials_file,
                   mainVars, reqVars, clVars, almVars,
                   qsVars, rtVars>>

TickVerify ==
    /\ pc = "idle"
    /\ TickVerifyStep(tk_pc, tk_pc')
    /\ UNCHANGED ot_pc

\* the same step taken by the earlier tick
EarlierTickVerify ==
    /\ pc = "idle"
    /\ TickVerifyStep(ot_pc, ot_pc')
    /\ UNCHANGED tk_pc

\* _auto_relogin (session.py 363-364): the guard reads the in-progress
\* flag; the flag is set by a later statement, so another thread can run
\* between the two
TickReloginStep(here, there) ==
    /\ here = "relogin"
    /\ there = IF current_student_id = "none" \/ login_in_progress
               THEN "restart_test" ELSE "relogin_flag"
    /\ tk_ev' = Ev("tick", "relogin", "none", "none", "none", "log")
    /\ UNCHANGED <<ev, auto_login_enabled, current_student_id, check_timer,
                   login_in_progress, session_tokens, credentials_file,
                   mainVars, reqVars, clVars, almVars,
                   qsVars, rtVars>>

TickRelogin ==
    /\ pc = "idle"
    /\ TickReloginStep(tk_pc, tk_pc')
    /\ UNCHANGED ot_pc

\* the same step taken by the earlier tick
EarlierTickRelogin ==
    /\ pc = "idle"
    /\ TickReloginStep(ot_pc, ot_pc')
    /\ UNCHANGED tk_pc

\* _auto_relogin (session.py 366-367): the in-progress flag is set
TickReloginFlagStep(here, there) ==
    /\ here = "relogin_flag"
    /\ login_in_progress' = TRUE
    /\ there = "restore"
    /\ tk_ev' = Ev("tick", "relogin_flag", "none", "none", "none", "none")
    /\ UNCHANGED <<ev, auto_login_enabled, current_student_id, check_timer,
                   session_tokens, credentials_file, mainVars, reqVars,
                   clVars, almVars, qsVars, rtVars>>

TickReloginFlag ==
    /\ pc = "idle"
    /\ TickReloginFlagStep(tk_pc, tk_pc')
    /\ UNCHANGED ot_pc

\* the same step taken by the earlier tick
EarlierTickReloginFlag ==
    /\ pc = "idle"
    /\ TickReloginFlagStep(ot_pc, ot_pc')
    /\ UNCHANGED tk_pc

\* faulty variant: a record marked session_valid = false is not restored
RestoresValidOnly(tokens, student_id) ==
    HasRecord(tokens, student_id) /\ tokens[student_id].session_valid

\* restore_session_from_tokens (session.py 266-279): the record is found
\* and its cookies and headers are installed
Restores(tokens, student_id) == HasRecord(tokens, student_id)

\* _auto_relogin (session.py 373, 388-394): restore_session_from_tokens; a
\* missing record ends the relogin
TickRestoreStep(here, there) ==
    /\ here = "restore"
    /\ IF Restores(session_tokens, current_student_id)
       THEN /\ session' =
                  Updated(session, session_tokens[current_student_id].cookies)
            /\ there = "reverify"
            /\ UNCHANGED login_in_progress
            /\ tk_ev' = Ev("tick", "restore", "true",
                        "none", "none", "log")
       ELSE /\ there = "restart_test"
            /\ login_in_progress' = FALSE
            /\ tk_ev' = Ev("tick", "restore", "false",
                        "none", "none", "log")
            /\ UNCHANGED session
    /\ UNCHANGED <<ev, auto_login_enabled, current_student_id, check_timer,
                   session_tokens, credentials_file, loginVars,
                   captchaVars, session_files, accounts, current_account,
                   histVars, reqVars, clVars, almVars,
                   qsVars, rtVars>>

TickRestore ==
    /\ pc = "idle"
    /\ TickRestoreStep(tk_pc, tk_pc')
    /\ UNCHANGED ot_pc

\* the same step taken by the earlier tick
EarlierTickRestore ==
    /\ pc = "idle"
    /\ TickRestoreStep(ot_pc, ot_pc')
    /\ UNCHANGED tk_pc

\* faulty variant: a failed re-verification leaves the record as it is
MarkedKeepsValid(tokens, student_id) == tokens

\* _auto_relogin (session.py 385-387): the record is marked invalid
Marked(tokens, student_id) ==
    IF HasRecord(tokens, student_id)
    THEN [tokens EXCEPT ![student_id].session_valid = FALSE]
    ELSE tokens

\* faulty variant: a successful re-verification leaves last_verified
ReverifiedKeepsStamp(tokens, student_id) == tokens

\* _auto_relogin (session.py 378-380): last_verified is set to the time of
\* the re-verification
Reverified(tokens, student_id) ==
    IF HasRecord(tokens, student_id)
    THEN [tokens EXCEPT ![student_id].last_verified = "relogin"]
    ELSE tokens

\* _auto_relogin (session.py 375-394): verify the restored session, stamp
\* or mark the record, write the credentials file when a record was
\* changed, clear the in-progress flag; the outcome is logged and the
\* return value is dropped by _check_session_status (session.py 347)
TickReverifyStep(here, there) ==
    /\ here = "reverify"
    /\ \E resp \in VerifyResponses :
          LET ok == verify_session(current_student_id, resp)
          IN  /\ session_tokens' =
                    IF ok
                    THEN Reverified(session_tokens, current_student_id)
                    ELSE Marked(session_tokens, current_student_id)
              /\ credentials_file' =
                    IF HasRecord(session_tokens, current_student_id)
                    THEN session_tokens' ELSE credentials_file
              /\ tk_ev' = Ev("tick", "reverify",
                          IF ok THEN "true" ELSE "false",
                          VerifyRequest(current_student_id), "none", "log")
    /\ login_in_progress' = FALSE
    /\ there = "restart_test"
    /\ UNCHANGED <<ev, auto_login_enabled, current_student_id, check_timer,
                   mainVars, reqVars, clVars, almVars,
                   qsVars, rtVars>>

TickReverify ==
    /\ pc = "idle"
    /\ TickReverifyStep(tk_pc, tk_pc')
    /\ UNCHANGED ot_pc

\* the same step taken by the earlier tick
EarlierTickReverify ==
    /\ pc = "idle"
    /\ TickReverifyStep(ot_pc, ot_pc')
    /\ UNCHANGED tk_pc

\* _check_session_status (session.py 351-358): "if self.auto_login_enabled"
TickRestartTestStep(here, there) ==
    /\ here = "restart_test"
    /\ there = IF auto_login_enabled THEN "restart" ELSE "none"
    /\ tk_ev' = IF there = "none" THEN NoEv
                 ELSE Ev("tick", "restart_test", "none", "none", "none", "none")
    /\ UNCHANGED <<ev, auto_login_enabled, current_student_id, check_timer,
                   login_in_progress, session_tokens, credentials_file,
                   mainVars, reqVars, clVars, almVars,
                   qsVars, rtVars>>

TickRestartTest ==
    /\ pc = "idle"
    /\ TickRestartTestStep(tk_pc, tk_pc')
    /\ UNCHANGED ot_pc

\* the same step taken by the earlier tick
EarlierTickRestartTest ==
    /\ pc = "idle"
    /\ TickRestartTestStep(ot_pc, ot_pc')
    /\ UNCHANGED tk_pc

\* _check_session_status (session.py 359): _start_check_timer()
TickRestartStep(here, there) ==
    /\ here = "restart"
    /\ check_timer' = StartedTimer
    /\ there = "none"
    /\ tk_ev' = NoEv
    /\ UNCHANGED <<ev, auto_login_enabled, current_student_id,
                   login_in_progress, session_tokens, credentials_file,
                   mainVars, reqVars, clVars, almVars,
                   qsVars, rtVars>>

TickRestart ==
    /\ pc = "idle"
    /\ TickRestartStep(tk_pc, tk_pc')
    /\ UNCHANGED ot_pc

\* the same step taken by the earlier tick
EarlierTickRestart ==
    /\ pc = "idle"
    /\ TickRestartStep(ot_pc, ot_pc')
    /\ UNCHANGED tk_pc

(***************************************************************************)
(* AutoLoginManager (auto_login.py 21-281)                                 *)
(***************************************************************************)

AlmIdle ==
    /\ alm_enabled = FALSE
    /\ alm_stop = FALSE
    /\ alm_is_checking = FALSE
    /\ alm_pc = "none"
    /\ alm_ev = NoEv

\* auto_login.py 200 calls SessionManager.get_saved_credentials, which
\* SessionManager (session.py 36-193) does not define: the call raises
\* AttributeError
GetSavedCredentialsDefined == FALSE

\* _try_login_with_credentials (auto_login.py 238-251): returns False
\* without a request
try_login_with_credentials == [ret |-> "false", request |-> "none"]

\* faulty variant: the check loop falls back to an interactive login and
\* submits the credential form
attempt_auto_login_interactive(account) ==
    [ret |-> "false", request |-> "login_post", report |-> "on_login_failed"]

\* _attempt_auto_login (auto_login.py 191-236): what it returns, the
\* request it issues and how the outcome is surfaced
attempt_auto_login(account) ==
    IF account = "none" \/ ~GetSavedCredentialsDefined
    THEN [ret |-> "false", request |-> "none", report |-> "log"]
    ELSE [ret     |-> try_login_with_credentials.ret,
          request |-> try_login_with_credentials.request,
          report  |-> IF try_login_with_credentials.ret = "true"
                      THEN "on_login_success" ELSE "on_login_failed"]

\* AutoLoginManager.enable_auto_login() (auto_login.py 40-70) and
\* _start_checking (144-152): a thread is started unless one is alive
AlmEnable ==
    /\ pc = "idle"
    /\ \E resp \in VerifyResponses :
          IF current_account # "none" /\ verify_session("none", resp)
          THEN /\ alm_enabled' = TRUE
               /\ IF alm_pc # "none"
                  THEN UNCHANGED <<alm_stop, alm_pc>>
                  ELSE /\ alm_stop' = FALSE
                       /\ alm_pc' = "start"
          ELSE UNCHANGED <<alm_enabled, alm_stop, alm_pc>>
    /\ UNCHANGED <<alm_is_checking, alm_ev, mainVars, reqVars, clVars,
                   supVars,
                   qsVars, rtVars, otVars>>

\* AutoLoginManager.disable_auto_login() (auto_login.py 72-90) and
\* _stop_checking_thread (154-160); join(timeout=5) does not wait for a
\* thread that is slow to leave
AlmDisable ==
    /\ pc = "idle"
    /\ alm_enabled' = FALSE
    /\ alm_stop' = TRUE
    /\ alm_is_checking' = FALSE
    /\ UNCHANGED <<alm_pc, alm_ev, mainVars, reqVars, clVars, supVars,
                   qsVars, rtVars, otVars>>

\* _check_loop (auto_login.py 164)
AlmLoopStart ==
    /\ pc = "idle"
    /\ alm_pc = "start"
    /\ alm_is_checking' = TRUE
    /\ alm_pc' = "test"
    /\ alm_ev' = Ev("check_loop", "start", "none", "none", "none", "none")
    /\ UNCHANGED <<alm_enabled, alm_stop, mainVars, reqVars, clVars,
                   supVars,
                   qsVars, rtVars, otVars>>

\* _check_loop (auto_login.py 166, 188): the loop condition
AlmLoopTest ==
    /\ pc = "idle"
    /\ alm_pc = "test"
    /\ IF ~alm_stop /\ alm_enabled
       THEN /\ alm_pc' = "check"
            /\ alm_ev' = Ev("check_loop", "test", "none", "none", "none",
                            "none")
            /\ UNCHANGED alm_is_checking
       ELSE /\ alm_pc' = "none"
            /\ alm_ev' = NoEv
            /\ alm_is_checking' = FALSE
    /\ UNCHANGED <<alm_enabled, alm_stop, mainVars, reqVars, clVars,
                   supVars,
                   qsVars, rtVars, otVars>>

\* _check_loop (auto_login.py 169-171): is_session_valid()
AlmCheck ==
    /\ pc = "idle"
    /\ alm_pc = "check"
    /\ \E resp \in VerifyResponses :
          /\ alm_pc' = IF verify_session("none", resp) THEN "wait"
                       ELSE "attempt"
          /\ alm_ev' = Ev("check_loop", "verify",
                          IF verify_session("none", resp)
                          THEN "true" ELSE "false",
                          VerifyRequest("none"), "none", "log")
    /\ UNCHANGED <<alm_enabled, alm_stop, alm_is_checking, mainVars,
                   reqVars, clVars, supVars,
                   qsVars, rtVars, otVars>>

\* _check_loop (auto_login.py 171): _attempt_auto_login()
AlmAttempt ==
    /\ pc = "idle"
    /\ alm_pc = "attempt"
    /\ alm_pc' = "wait"
    /\ alm_ev' = Ev("check_loop", "attempt",
                    attempt_auto_login(current_account).ret,
                    attempt_auto_login(current_account).request, "none",
                    attempt_auto_login(current_account).report)
    /\ UNCHANGED <<alm_enabled, alm_stop, alm_is_checking, mainVars,
                   reqVars, clVars, supVars,
                   qsVars, rtVars, otVars>>

\* _check_loop (auto_login.py 173-182): the wait for the next check
AlmWait ==
    /\ pc = "idle"
    /\ alm_pc = "wait"
    /\ alm_pc' = "test"
    /\ alm_ev' = Ev("check_loop", "wait", "none", "none", "none", "none")
    /\ UNCHANGED <<alm_enabled, alm_stop, alm_is_checking, mainVars,
                   reqVars, clVars, supVars,
                   qsVars, rtVars, otVars>>

(***************************************************************************)
(* query_scores and the extraction of the score rows (api.py 219-374,      *)
(* 460-531)                                                                *)
(***************************************************************************)

MaxRows    == 2      \* most <tr> rows inside one element
MaxIdElems == 1      \* most elements with id="scoretbody" in the page
MaxTables  == 1      \* most tables with class "table" in the page
MaxItems   == 1      \* most entries of the list in the JSON answer

\* <td> cells of a <tr>: none (a header row), five, more than five
CellCounts == {0, 5, 6}

\* the <tr> rows of an element, each given by the number of its cells
TrLists == SeqsUpTo(CellCounts, MaxRows)

\* an element with id="scoretbody": a <tbody>, or another tag (the markup
\* variant the second lookup is for)
IdElems == [tag : {"tbody", "table"}, trs : TrLists]

\* a <table class="table">, with its first <tbody> if it has one
ClassTables ==
    {[has_tbody |-> FALSE, trs |-> <<>>]} \cup [has_tbody : {TRUE}, trs : TrLists]

\* the parsed grades page: the elements the three lookups can see
EmptyPage == [ids |-> <<>>, tables |-> <<>>]
Pages == [ids : SeqsUpTo(IdElems, MaxIdElems),
          tables : SeqsUpTo(ClassTables, MaxTables)]

\* the answer to the GET of the grades page; url_login: "login" occurs in
\* response.url (the request was redirected to the login page)
NoScoresResp == [present |-> FALSE, status |-> 0, url_login |-> FALSE,
                 page |-> EmptyPage]
ScoresResponses ==
    {NoScoresResp}
    \cup [present : {TRUE}, status : {302, 500}, url_login : {FALSE},
          page : {EmptyPage}]
    \cup [present : {TRUE}, status : {200}, url_login : BOOLEAN, page : Pages]

\* the answer to the GET of the score data URL; json is what .json() gives:
\* "malformed" raises, "empty" is [], "no_list" is [{}], "bad_item" is a
\* list with an entry whose id is null, "list" is a list of items entries
NoData == [present |-> FALSE, status |-> 0, json |-> "malformed", items |-> 0]
DataResponses ==
    {NoData}
    \cup [present : {TRUE}, status : {500}, json : {"malformed"},
          items : {0}]
    \cup [present : {TRUE}, status : {200},
          json : {"malformed", "empty", "no_list"}, items : {0}]
    \cup [present : {TRUE}, status : {200}, json : {"bad_item"},
          items : 1..MaxItems]
    \cup [present : {TRUE}, status : {200}, json : {"list"},
          items : 0..MaxItems]

\* one extracted row: the texts of the cells of the row-th <tr> of the
\* elem-th element of kind from (or the 12 fields built from the row-th
\* JSON entry)
Row(from, elem, row, cells) ==
    [from |-> from, elem |-> elem, row |-> row, cells |-> cells]

\* get_scores_from_api (api.py 219-313); the data request is answered by
\* data_resp.  Line 254 tests the response and its status, 256 parses the
\* JSON, 268 wants a non-empty list whose first entry has 'list', 270
\* wants that list non-empty, 275-306 build one row of 12 fields per
\* entry; every exception ends in "return []" (308-313), the rows built
\* so far included
get_scores_from_api(data_resp) ==
    IF Truthy(data_resp) /\ data_resp.status = 200
    THEN IF data_resp.json = "list"
         THEN [j \in 1..data_resp.items |-> Row("api", 1, j, 12)]
         ELSE <<>>
    ELSE <<>>

\* api.py 332, 342: "if cols" after collecting the <td> texts
HasCols(cells) == cells > 0

\* faulty variant: rows of exactly five cells pass too
ManyColsFromFive(cells) == cells >= 5

\* api.py 353: "if cols and len(cols) > 5"
ManyCols(cells) == cells > 5

\* the rows of the <tr>s of one element of kind from that have cells
TrRows(from, elem, trs) ==
    SelectSeq([j \in 1..Len(trs) |-> Row(from, elem, j, trs[j])],
              LAMBDA r : HasCols(r.cells))

\* api.py 327: soup.find('tbody', id='scoretbody'), the first <tbody>
\* with the id (0: there is none)
FirstTbody(page) ==
    IF \E i \in 1..Len(page.ids) : page.ids[i].tag = "tbody"
    THEN CHOOSE i \in 1..Len(page.ids) :
            /\ page.ids[i].tag = "tbody"
            /\ \A j \in 1..(i - 1) : page.ids[j].tag # "tbody"
    ELSE 0

\* api.py 326-333, method 1
Method1(page) ==
    IF FirstTbody(page) # 0
    THEN TrRows("id", FirstTbody(page), page.ids[FirstTbody(page)].trs)
    ELSE <<>>

\* api.py 335-343, method 2: soup.select("#scoretbody tr") finds the <tr>s
\* under every element with the id, whatever its tag
RECURSIVE SelectRows(_, _)
SelectRows(page, i) ==
    IF i > Len(page.ids) THEN <<>>
    ELSE TrRows("id", i, page.ids[i].trs) \o SelectRows(page, i + 1)

Method2(page) == SelectRows(page, 1)

\* api.py 345-354, method 3: every table with class "table", the rows of
\* its <tbody> that have more than five cells
RECURSIVE TableRows(_, _)
TableRows(page, i) ==
    IF i > Len(page.tables) THEN <<>>
    ELSE (IF page.tables[i].has_tbody
          THEN SelectSeq(TrRows("table", i, page.tables[i].trs),
                         LAMBDA r : ManyCols(r.cells))
          ELSE <<>>)
         \o TableRows(page, i + 1)

Method3(page) == TableRows(page, 1)

\* get_scores_from_html (api.py 315-356): "if not rows" (336, 346) before
\* methods 2 and 3
get_scores_from_html(page) ==
    IF Method1(page) # <<>> THEN Method1(page)
    ELSE IF Method2(page) # <<>> THEN Method2(page)
    ELSE Method3(page)

\* the methods get_scores_from_html runs, in the order it runs them
html_methods_run(page) ==
    <<"tbody">>
    \o (IF Method1(page) = <<>>
        THEN <<"select">>
             \o (IF Method2(page) = <<>> THEN <<"tables">> ELSE <<>>)
        ELSE <<>>)

\* faulty variant: the notification is sent on a login URL too
handle_no_scores_always(scores_resp) == 1

\* handle_no_scores (api.py 358-374): the number of pushplus_notify calls;
\* 367-369 return on a login URL, 374 notifies otherwise
handle_no_scores(scores_resp) ==
    IF scores_resp.url_login THEN 0 ELSE 1

\* what a query_scores call returned and did: the value returned, the rows
\* displayed, the extraction strategies run, the pushplus_notify calls
\* made, and the line logged about the outcome
QsResult(ret, rows, tried, notified, log) ==
    [ret |-> ret, rows |-> rows, tried |-> tried, notified |-> notified,
     log |-> log]
NoQsResult == QsResult("none", <<>>, <<>>, 0, "none")

\* query_scores (api.py 460-531) with the grades request answered by
\* scores_resp and the data request by data_resp: 480-482 return False
\* on a failed page request, 506 asks the JSON endpoint, 509-511 fall back
\* to the page, 514-517 handle zero rows and return True, 520-524 display
\* the rows and return True
query_scores(scores_resp, data_resp) ==
    IF ~Truthy(scores_resp) \/ scores_resp.status # 200
    THEN QsResult("false", <<>>, <<>>, 0, "request_failed")
    ELSE LET api_rows == get_scores_from_api(data_resp)
             score_rows == IF api_rows = <<>>
                           THEN get_scores_from_html(scores_resp.page)
                           ELSE api_rows
             tried == IF api_rows = <<>>
                      THEN <<"api">> \o html_methods_run(scores_resp.page)
                      ELSE <<"api">>
         IN  IF score_rows = <<>>
             THEN QsResult("true", <<>>, tried,
                           handle_no_scores(scores_resp),
                           IF scores_resp.url_login THEN "expired"
                           ELSE "no_data")
             ELSE QsResult("true", score_rows, tried, 0, "rows")

\* what the portal can answer to one query_scores call
QsInputs ==
    [scores_resp : {r \in ScoresResponses : r.status # 200},
     data_resp : {NoData}]
    \cup [scores_resp : {r \in ScoresResponses : r.status = 200},
          data_resp : DataResponses]
NoQuery == [scores_resp |-> NoScoresResp, data_resp |-> NoData]

QsIdle ==
    /\ qs_pc = "none"
    /\ qs_input = NoQuery
    /\ qs_result = NoQsResult

\* a query_scores call about to be made, and the answers it will get
QsInit ==
    /\ qs_pc = "ready"
    /\ qs_input \in QsInputs
    /\ qs_result = NoQsResult

\* the call of query_scores
QueryScores ==
    /\ qs_pc = "ready"
    /\ qs_pc' = "done"
    /\ qs_result' = query_scores(qs_input.scores_resp, qs_input.data_resp)
    /\ UNCHANGED <<qs_input, mainVars, reqVars, clVars, supVars, almVars,
                   rtVars, otVars>>

(***************************************************************************)
(* The owner of the SessionManager: saves, loads, deletions and changes    *)
(* of the active session (session.py 23-34, 82-126, 166-187)               *)
(***************************************************************************)

\* the call before the last one: its name, its argument, the value it
\* returned and whether make_request brought it a response
NoPrev == [op |-> "none", student_id |-> "", ret |-> "none",
           delivered |-> FALSE]
PrevCall == [op |-> rt_ev.op, student_id |-> rt_ev.student_id,
             ret |-> rt_ev.ret, delivered |-> rt_ev.resp.present]

\* the last SessionManager call: its name, its argument, the value it
\* returned, the cookies of the active session before it, the response
\* make_request gave it, and the call before it
RtEv(op, student_id, ret, before, resp) ==
    [op |-> op, student_id |-> student_id, ret |-> ret, before |-> before,
     resp |-> resp, prev |-> PrevCall]
NoRtEv == [op |-> "none", student_id |-> "", ret |-> "none",
           before |-> "none", resp |-> NoPage, prev |-> NoPrev]

\* what the portal can answer to a GET of SCORES_URL that reaches it
PortalAnswers == VerifyResponses \ {NoPage}

RtIdle ==
    /\ rt_saved = [id \in Identities |-> "unsaved"]
    /\ rt_ev = NoRtEv
    /\ portal = ScoresPage(200, FALSE, TRUE)

\* the store of a new SessionManager, and a portal in any disposition
RtInit ==
    /\ rt_saved = [id \in Identities |-> "unsaved"]
    /\ rt_ev = NoRtEv
    /\ portal \in PortalAnswers

\* save_session(student_id) called by the owner (session.py 82-106);
\* rt_saved keeps the cookies that were active at the save
StSaveSession ==
    /\ pc = "idle"
    /\ \E student_id \in Identities :
          /\ save_session(student_id)
          /\ rt_saved' = IF Saves(student_id)
                         THEN [rt_saved EXCEPT ![student_id] = session]
                         ELSE rt_saved
          /\ rt_ev' = RtEv("save", student_id,
                           IF Saves(student_id) THEN "true" ELSE "false",
                           session, NoPage)
    /\ UNCHANGED <<session, portal, loginVars, captchaVars, histVars, reqVars,
                   clVars, supVars, almVars, qsVars, otVars>>

\* load_session(student_id) called by the owner (session.py 108-126)
StLoadSession ==
    /\ pc = "idle"
    /\ \E student_id \in Identities :
          /\ load_session(student_id)
          /\ rt_ev' = RtEv("load", student_id,
                           IF Loads(student_id) THEN "true" ELSE "false",
                           session, NoPage)
    /\ UNCHANGED <<rt_saved, portal, loginVars, captchaVars, histVars, reqVars,
                   clVars, supVars, almVars, qsVars, otVars>>

\* delete_account(student_id) called by the owner (session.py 166-187)
StDeleteAccount ==
    /\ pc = "idle"
    /\ \E student_id \in Identities :
          /\ delete_account(student_id)
          /\ rt_saved' = [rt_saved EXCEPT ![student_id] = "unsaved"]
          /\ rt_ev' = RtEv("delete", student_id, "true", session, NoPage)
    /\ UNCHANGED <<portal, loginVars, captchaVars, histVars, reqVars, clVars,
                   supVars, almVars, qsVars, otVars>>

\* the cookies of the active session change: the handshake of a new login
\* (auth.py 235-254), a Set-Cookie of the portal, or set_session
\* (session.py 31-34)
StSessionChanges ==
    /\ pc = "idle"
    /\ \E cookie \in Cookies :
          /\ cookie # session
          /\ session' = cookie
    /\ rt_ev' = RtEv("change", "", "none", session, NoPage)
    /\ UNCHANGED <<rt_saved, portal, session_files, accounts, current_account,
                   loginVars, captchaVars, histVars, reqVars, clVars,
                   supVars, almVars, qsVars, otVars>>

\* the portal changes its view of the active session: it invalidates the
\* session, accepts it again after a login, or starts failing
StPortalChanges ==
    /\ pc = "idle"
    /\ \E answer \in PortalAnswers :
          /\ answer # portal
          /\ portal' = answer
    /\ rt_ev' = RtEv("portal", "", "none", session, NoPage)
    /\ UNCHANGED <<rt_saved, storeVars, loginVars, captchaVars, histVars,
                   reqVars, clVars, supVars, almVars, qsVars, otVars>>

\* verify_session(student_id) called by the owner (session.py 128-152);
\* "none" is the call without an argument.  make_request (api.py 31-104)
\* brings the portal's answer, or None when the gateway fails
StVerifySession ==
    /\ pc = "idle"
    /\ \E student_id \in Identities \cup {"none"}, delivered \in BOOLEAN :
          LET resp == IF IssuesVerifyRequest(student_id)
                      THEN (IF delivered THEN portal ELSE NoPage)
                      ELSE NoPage
          IN  rt_ev' = RtEv("verify", student_id,
                            IF verify_session(student_id, resp)
                            THEN "true" ELSE "false",
                            session, resp)
    /\ UNCHANGED <<rt_saved, portal, storeVars, loginVars, captchaVars,
                   histVars, reqVars, clVars, supVars, almVars, qsVars, otVars>>

(***************************************************************************)
(* Specifications                                                          *)
(***************************************************************************)

\* a SessionManager over an empty store, a CaptchaHandler whose __init__
\* swept TEMP_DIR, a fresh requests.Session
MainInit ==
    /\ pc = "idle"
    /\ call = NoLogin
    /\ attempt = 0
    /\ captcha_code = "none"
    /\ login_result = "none"
    /\ login_return = "none"
    /\ current_captcha_path = 0
    /\ disk = {}
    /\ cap = NoCall
    /\ cap_return = 0
    /\ acquired = {}
    /\ acq_count = 0
    /\ session = "none"
    /\ session_files = [id \in Identities |-> NoFile]
    /\ accounts = {}
    /\ current_account = "none"
    /\ submits = 0
    /\ fetches = 0
    /\ only_bad_captcha = TRUE
    /\ only_captcha_error = TRUE
    /\ login_exit = "none"

Init ==
    /\ MainInit /\ ReqIdle /\ ClIdle /\ SupIdle /\ AlmIdle
    /\ QsIdle /\ RtIdle

Next ==
    \/ GetCaptchaCall
    \/ RefreshCall
    \/ DeleteCurrentCall
    \/ CleanupCall
    \/ NewCaptchaHandler
    \/ CaptchaAttemptRejected
    \/ CaptchaAttemptSaved
    \/ CaptchaExhausted
    \/ CaptchaReturned
    \/ LoginCall
    \/ InitSessionFails
    \/ InitSessionSucceeds
    \/ LoginExhausted
    \/ LoginRefresh
    \/ LoginHasCode
    \/ LoginNoCaptcha
    \/ LoginGotCaptcha
    \/ InputCode
    \/ InputRefresh
    \/ InputRefreshed
    \/ InputCancel
    \/ LoginSubmit
    \/ LoginSuccess
    \/ LoginRetry
    \/ LoginCredentialError
    \/ LoginReturned

Spec == Init /\ [][Next]_vars

InitReq ==
    /\ MainInit /\ ReqIdle /\ ClIdle /\ SupIdle /\ AlmIdle
    /\ QsIdle /\ RtIdle

NextReq ==
    \/ MakeRequestCall
    \/ MakeRequestUnsupported
    \/ MakeRequestAnswered
    \/ MakeRequestError
    \/ MakeRequestExhausted

SpecReq == InitReq /\ [][NextReq]_vars

InitClassify ==
    /\ MainInit /\ ReqIdle /\ ClInit /\ SupIdle /\ AlmIdle
    /\ QsIdle /\ RtIdle

NextClassify == Classify

SpecClassify == InitClassify /\ [][NextClassify]_vars

InitSup ==
    /\ MainInit /\ ReqIdle /\ ClIdle /\ SupIdle /\ AlmIdle
    /\ QsIdle /\ RtIdle

NextSup ==
    \/ EnableAutoLogin
    \/ DisableAutoLogin
    \/ SupCleanup
    \/ SaveSessionInfo
    \/ InteractiveLogin
    \/ SupReturned
    \/ TimerFires
    \/ TickEntry
    \/ TickVerify
    \/ TickRelogin
    \/ TickReloginFlag
    \/ TickRestore
    \/ TickReverify
    \/ TickRestartTest
    \/ TickRestart

SpecSup == InitSup /\ [][NextSup]_vars

\* the store after construction, or after a login as student_id that
\* saved the session (session.py 82-106)
StoreAfterLogin(student_id, cookie) ==
    /\ session = cookie
    /\ session_files = [id \in Identities |->
                          IF id = student_id THEN cookie ELSE NoFile]
    /\ accounts = {student_id}
    /\ current_account = student_id

MainInitLoggedIn ==
    /\ pc = "idle"
    /\ call = NoLogin
    /\ attempt = 0
    /\ captcha_code = "none"
    /\ login_result = "none"
    /\ login_return = "none"
    /\ current_captcha_path = 0
    /\ disk = {}
    /\ cap = NoCall
    /\ cap_return = 0
    /\ acquired = {}
    /\ acq_count = 0
    /\ \E student_id \in Identities \ {""}, cookie \in Cookies :
          StoreAfterLogin(student_id, cookie)
    /\ submits = 0
    /\ fetches = 0
    /\ only_bad_captcha = TRUE
    /\ only_captcha_error = TRUE
    /\ login_exit = "none"

InitWatch ==
    /\ MainInit \/ MainInitLoggedIn
    /\ ReqIdle /\ ClIdle /\ SupIdle /\ AlmIdle
    /\ QsIdle /\ RtIdle

\* the two supervisors side by side; the owner has logged in or not, and
\* switches the supervisors on and off
NextWatch ==
    \/ EnableAutoLogin
    \/ DisableAutoLogin
    \/ SupReturned
    \/ TimerFires
    \/ TickEntry
    \/ TickVerify
    \/ TickRelogin
    \/ TickReloginFlag
    \/ TickRestore
    \/ TickReverify
    \/ TickRestartTest
    \/ TickRestart
    \/ AlmEnable
    \/ AlmDisable
    \/ AlmLoopStart
    \/ AlmLoopTest
    \/ AlmCheck
    \/ AlmAttempt
    \/ AlmWait

SpecWatch == InitWatch /\ [][NextWatch]_vars

\* one query_scores call; the answers of the portal are chosen at the start
InitScores ==
    /\ MainInit /\ ReqIdle /\ ClIdle /\ SupIdle /\ AlmIdle
    /\ QsInit /\ RtIdle

NextScores == QueryScores

SpecScores == InitScores /\ [][NextScores]_vars

\* the owner of a SessionManager over an empty store
InitStore ==
    /\ MainInit /\ ReqIdle /\ ClIdle /\ SupIdle /\ AlmIdle
    /\ QsIdle /\ RtInit

NextStore ==
    \/ StSaveSession
    \/ StLoadSession
    \/ StDeleteAccount
    \/ StSessionChanges
    \/ StPortalChanges
    \/ StVerifySession

SpecStore == InitStore /\ [][NextStore]_vars

\* the supervisor with two timer threads: the owner switches it on and
\* off, and a Timer can fire while the tick of an earlier one is in flight
InitOverlap ==
    /\ MainInitLoggedIn /\ ReqIdle /\ ClIdle /\ SupIdle /\ AlmIdle
    /\ QsIdle /\ RtIdle

NextOverlap ==
    \/ EnableAutoLogin
    \/ DisableAutoLogin
    \/ SupReturned
    \/ TimerFires
    \/ TimerFiresOverTick
    \/ TickEntry
    \/ TickVerify
    \/ TickRelogin
    \/ TickReloginFlag
    \/ TickRestore
    \/ TickReverify
    \/ TickRestartTest
    \/ TickRestart
    \/ EarlierTickEntry
    \/ EarlierTickVerify
    \/ EarlierTickRelogin
    \/ EarlierTickReloginFlag
    \/ EarlierTickRestore
    \/ EarlierTickReverify
    \/ EarlierTickRestartTest
    \/ EarlierTickRestart

SpecOverlap == InitOverlap /\ [][NextOverlap]_vars

\* the steps of the thread of the Timer that fired last
TickThreadStep ==
    \/ TickEntry
    \/ TickVerify
    \/ TickRelogin
    \/ TickReloginFlag
    \/ TickRestore
    \/ TickReverify
    \/ TickRestartTest
    \/ TickRestart

\* the steps of the thread of the earlier Timer
EarlierTickThreadStep ==
    \/ EarlierTickEntry
    \/ EarlierTickVerify
    \/ EarlierTickRelogin
    \/ EarlierTickReloginFlag
    \/ EarlierTickRestore
    \/ EarlierTickReverify
    \/ EarlierTickRestartTest
    \/ EarlierTickRestart

\* the supervisor under the scheduling of the threads: a call of the owner
\* returns, a started Timer fires after its interval unless it is
\* cancelled, and a timer thread runs to the end of its tick; the threads
\* get their turn however often the owner calls
SpecOverlapFair ==
    /\ InitOverlap
    /\ [][NextOverlap]_vars
    /\ WF_vars(SupReturned)
    /\ SF_vars(TimerFires \/ TimerFiresOverTick)
    /\ SF_vars(TickThreadStep)
    /\ SF_vars(EarlierTickThreadStep)

\* the steps the thread inside login() takes by itself: the handshake, the
\* for loop, the fetch loop of the CAPTCHA, the submission and its branches
LoginThreadStep ==
    \/ InitSessionFails
    \/ InitSessionSucceeds
    \/ LoginExhausted
    \/ LoginRefresh
    \/ LoginHasCode
    \/ LoginNoCaptcha
    \/ LoginGotCaptcha
    \/ CaptchaAttemptRejected
    \/ CaptchaAttemptSaved
    \/ CaptchaExhausted
    \/ InputRefreshed
    \/ LoginSubmit
    \/ LoginSuccess
    \/ LoginRetry
    \/ LoginCredentialError
    \/ LoginReturned

\* the answers of the user to the menu of _get_captcha_input
\* (auth.py 370-390)
UserAnswers ==
    \/ InputCode
    \/ InputRefresh
    \/ InputCancel

NextLogin ==
    \/ LoginCall
    \/ LoginThreadStep
    \/ UserAnswers

\* login() calls one after the other: the thread keeps running while it
\* has a step to take, and the user answers every menu, with whatever
\* option
SpecLoginFair ==
    /\ Init
    /\ [][NextLogin]_vars
    /\ WF_vars(LoginThreadStep)
    /\ WF_vars(UserAnswers)

(***************************************************************************)
(* Properties                                                              *)
(***************************************************************************)

\* login() went through its loop: session initialisation succeeded, every
\* CAPTCHA was obtained and the user entered a code for each
RanTheLoop == login_exit \notin {"none", "init_failed", "no_captcha", "cancelled"}

\* C1: when session initialisation succeeds, a CAPTCHA is obtained on every
\* iteration and every credential submission is answered with a 302 to
\* /login?errorCode=badCaptcha, every attempt is classified captcha_error
\* and login(max_attempts = N) returns false after exactly N submissions;
\* at no time has it made more than N.
C1_BadCaptchaUsesAllAttempts ==
    /\ only_bad_captcha => submits <= call.max_attempts
    /\ (pc = "login_ret" /\ RanTheLoop /\ only_bad_captcha)
          => /\ login_return = "false"
             /\ submits = call.max_attempts
             /\ only_captcha_error

C1_Witness ==
    /\ pc = "login_ret"
    /\ login_exit = "exhausted"
    /\ only_bad_captcha
    /\ submits >= 2
    /\ fetches >= 2
    /\ login_return = "false"

\* C2: the step that follows a classification credential_error is the
\* return of false: it submits nothing, fetches no CAPTCHA, and nothing
\* but handing the value to the caller follows the return.
C2_CredentialErrorEndsLogin ==
    [][/\ (pc = "login_branch" /\ login_result = "credential_error")
             => /\ pc' = "login_ret"
                /\ login_return' = "false"
                /\ submits' = submits
                /\ fetches' = fetches
       /\ pc = "login_ret" => pc' = "idle"]_vars

C2_Witness ==
    /\ pc = "login_ret"
    /\ login_result = "credential_error"
    /\ login_return = "false"
    /\ submits >= 1
    /\ submits < call.max_attempts

\* the active session is persisted under id and id is the current account
Persisted(id) ==
    /\ session_files[id] = session
    /\ id \in accounts
    /\ current_account = id

C4_NoImageOnReturn ==
    pc = "login_ret" => (current_captcha_path = 0 /\ acquired = {})

\* C10: at most one image the handler acquired is on disk, and it is the
\* one the handler holds as current.
C10_AtMostOneCurrentImage ==
    /\ Cardinality(acquired) <= 1
    /\ acquired \subseteq {current_captcha_path}

C10_Witness ==
    /\ pc = "idle"
    /\ acq_count >= 2
    /\ current_captcha_path # 0
    /\ acquired = {current_captcha_path}
    /\ disk = acquired

\* every attempt made so far ended in the error class kind
AllAttempts(kind) ==
    \A i \in 1..Len(mr_outcomes) : mr_outcomes[i] = kind

\* C8: make_request(max_retries = N) never makes more than N attempts, and
\* when every attempt times out, or every attempt is a connection failure,
\* it makes exactly N and returns None.
C8_ExactlyNAttempts ==
    /\ mr_calls <= mr_max_retries
    /\ (/\ mr_pc = "done"
        /\ SupportedMethod(mr_method)
        /\ (AllAttempts("timeout") \/ AllAttempts("connection")))
          => /\ mr_calls = mr_max_retries
             /\ mr_result = "none"

C8_Witness ==
    /\ mr_pc = "done"
    /\ mr_max_retries >= 2
    /\ mr_outcomes # <<>>
    /\ AllAttempts("timeout")
    /\ mr_calls = mr_max_retries
    /\ mr_result = "none"

\* C9: an error that is neither a timeout nor a connection failure is the
\* last attempt of the call, which returns None with no wait after it; an
\* unsupported method returns None with no network call and no wait.
C9_NonRetryableEndsCall ==
    /\ \A i \in 1..Len(mr_outcomes) :
          mr_outcomes[i] = "other"
             => /\ i = Len(mr_outcomes)
                /\ mr_pc = "done"
                /\ mr_result = "none"
                /\ Len(mr_sleeps) = i - 1
    /\ (~SupportedMethod(mr_method) /\ mr_pc # "idle")
          => /\ mr_calls = 0
             /\ mr_sleeps = <<>>
             /\ mr_pc = "done" => mr_result = "none"

C9_Witness ==
    /\ mr_pc = "done"
    /\ Len(mr_outcomes) >= 2
    /\ mr_outcomes[Len(mr_outcomes)] = "other"
    /\ Len(mr_outcomes) < mr_max_retries
    /\ mr_result = "none"

\* the response classified is a 302
Classified302 ==
    cl_pc = "done" /\ cl_response.present /\ cl_response.status = 302

C6_ContainmentClassification ==
    Classified302 =>
        LET location == LocationOf(cl_response)
        IN  /\ (/\ Contains(location, BadCredentialsMarker)
                /\ ~Contains(location, BadCaptchaMarker))
                  => cl_result = "credential_error"
            /\ cl_result = "success"
                  => /\ ~Contains(location, BadCredentialsMarker)
                     /\ ~Contains(location, BadCaptchaMarker)

\* C7: every response yields one of the four outcomes; a missing response
\* yields unknown; a response other than a 302 yields captcha_error when
\* the extracted error text has a CAPTCHA keyword, else credential_error
\* when it has a username/password keyword, else unknown.
C7_TotalClassification ==
    cl_pc = "done" =>
        /\ cl_result \in Outcomes
        /\ ~cl_response.present => cl_result = "unknown"
        /\ (cl_response.present /\ cl_response.status # 302) =>
              LET error_msg == extract_error_message(cl_response)
              IN  cl_result =
                     IF error_msg.has /\ HasCaptchaKeyword(error_msg.text)
                     THEN "captcha_error"
                     ELSE IF error_msg.has
                             /\ HasCredentialKeyword(error_msg.text)
                          THEN "credential_error"
                          ELSE "unknown"


\* C11: a get_captcha() call that has to fetch makes at most max_retries
\* fetch attempts; a rejected attempt changes neither the current image nor
\* the files on disk; and when all max_retries attempts were rejected the
\* call returns none and the handler's reference is none.
C11_RejectedFetchesLeaveNoImage ==
    /\ [](pc = "cap_fetch" => cap.attempt <= cap.max_retries)
    /\ [][(pc = "cap_fetch" /\ pc' = "cap_fetch")
             => /\ disk' = disk
                /\ current_captcha_path' = current_captcha_path]_vars
    /\ [][(/\ pc = "cap_fetch"
           /\ cap.max_retries >= 1
           /\ cap.attempt = cap.max_retries)
             => /\ cap_return' = 0
                /\ current_captcha_path' = 0]_vars


\* C12: a tick reinstalls the cookies and headers of a Saved Token Record
\* only while the record is marked session_valid = true: once a failed
\* restore has marked it false, no tick restores from it again until a
\* fresh save has re-created it.
C12_NoRestoreOfInvalidRecord ==
    [][(tk_pc = "restore" /\ tk_pc' = "reverify")
          => session_tokens[current_student_id].session_valid]_vars


\* the Saved Token Record of the monitored identity, after the step
MonitoredRecord == session_tokens'[current_student_id]

\* C13: on a tick whose verification fails the supervisor goes on to the
\* restore, which installs the saved cookies and headers and is followed
\* by a re-verification; when the re-verification succeeds last_verified
\* is updated, and when it fails the record is marked session_valid =
\* false and the failure is surfaced through a failure callback.
C13_FailedRestoreIsSurfaced ==
    [][tk_pc' # tk_pc =>
       /\ (tk_pc = "verify" /\ tk_ev'.ret = "false") => tk_pc' = "relogin"
       /\ (tk_pc = "restore" /\ HasRecord(session_tokens, current_student_id))
             => /\ tk_pc' = "reverify"
                /\ session' =
                      Updated(session,
                              session_tokens[current_student_id].cookies)
       /\ (/\ tk_pc = "reverify"
           /\ HasRecord(session_tokens, current_student_id)
           /\ tk_ev'.ret = "true")
             => MonitoredRecord.last_verified = "relogin"
       /\ (/\ tk_pc = "reverify"
           /\ HasRecord(session_tokens, current_student_id)
           /\ tk_ev'.ret = "false")
             => /\ ~MonitoredRecord.session_valid
                /\ tk_ev'.report = "callback"]_vars


\* C14: a call of enable_auto_login that returns true has found the
\* identity to be the store's current account and the session verified,
\* has saved the snapshot, has set the enabled flag and the monitored
\* identity and has started the timer; a call that returns false leaves the
\* enabled flag, the monitored identity and the timer as they were.  Hence
\* whenever the supervisor is enabled, a Saved Token Record exists for the
\* monitored identity.
C14_EnableOnlyWhenVerified ==
    /\ [](auto_login_enabled
            => HasRecord(session_tokens, current_student_id))
    /\ [][ev'.op = "enable" =>
            IF ev'.ret = "true"
            THEN /\ current_student_id' = current_account
                 /\ ev'.verified = "true"
                 /\ session_tokens'[current_student_id'] = Snapshot(session)
                 /\ credentials_file' = session_tokens'
                 /\ auto_login_enabled'
                 /\ check_timer' = "pending"
            ELSE /\ ev'.ret = "false"
                 /\ UNCHANGED <<auto_login_enabled, current_student_id,
                                check_timer>>]_vars

\* the supervisor was enabled for one identity while a record of another
\* identity exists, and the call has just returned true
C14_Witness ==
    /\ pc = "sup_ret"
    /\ ev.op = "enable"
    /\ ev.ret = "true"
    /\ auto_login_enabled
    /\ current_student_id = "2021002"
    /\ check_timer = "pending"
    /\ HasRecord(session_tokens, "2021002")
    /\ HasRecord(session_tokens, "2021001")


\* C15: disable_auto_login() clears the enabled flag and the monitored
\* identity and leaves no timer pending; it changes no Saved Token Record,
\* in memory or in the credentials file, nor the active session, nor the
\* store's current account.
C15_DisableLeavesRecords ==
    [][ev'.op = "disable" =>
          /\ ~auto_login_enabled'
          /\ current_student_id' = "none"
          /\ check_timer' = "none"
          /\ UNCHANGED <<session_tokens, credentials_file, session,
                         session_files, accounts, current_account>>]_vars

\* disable_auto_login() has just returned while a tick that began under
\* the enabled supervisor is in flight; records of two identities, an
\* authenticated session and a current account are there to be kept
C15_Witness ==
    /\ pc = "sup_ret"
    /\ ev.op = "disable"
    /\ tk_pc = "restore"
    /\ ~auto_login_enabled
    /\ current_student_id = "none"
    /\ check_timer = "none"
    /\ HasRecord(session_tokens, "2021001")
    /\ HasRecord(session_tokens, "2021002")
    /\ credentials_file = session_tokens
    /\ session = "JSESSIONID=1"
    /\ current_account = "2021001"


Strategies == <<"api", "tbody", "select", "tables">>

\* the rows strategy k finds in the answers of the call, taken by itself
Yield(k) ==
    CASE k = 1 -> get_scores_from_api(qs_input.data_resp)
      [] k = 2 -> Method1(qs_input.scores_resp.page)
      [] k = 3 -> Method2(qs_input.scores_resp.page)
      [] k = 4 -> Method3(qs_input.scores_resp.page)

\* the call got the grades page with status 200
PageFetched ==
    /\ qs_pc = "done"
    /\ qs_input.scores_resp.present
    /\ qs_input.scores_resp.status = 200

\* the data request failed or its body was not JSON
DataFailed ==
    \/ ~qs_input.data_resp.present
    \/ qs_input.data_resp.status # 200
    \/ qs_input.data_resp.json = "malformed"

\* C17: score extraction runs its strategies in the order JSON endpoint,
\* tbody lookup, CSS selector, generic table scan; a strategy runs only if
\* every earlier one yielded zero rows (a failed data request or malformed
\* JSON being zero rows), the rows returned are exactly those of the first
\* strategy that yields any, and rows of the table scan have more than
\* five cells
C17_FirstNonEmptyStrategyWins ==
    PageFetched =>
        LET tried == qs_result.tried
        IN  /\ Len(tried) \in 1..4
            /\ tried = SubSeq(Strategies, 1, Len(tried))
            /\ \A k \in 1..Len(tried) : \A j \in 1..(k - 1) : Yield(j) = <<>>
            /\ Len(tried) < 4 => Yield(Len(tried)) # <<>>
            /\ qs_result.rows = Yield(Len(tried))
            /\ DataFailed => Yield(1) = <<>>
            /\ \A i \in 1..Len(qs_result.rows) :
                  qs_result.rows[i].from = "table"
                      => qs_result.rows[i].cells > 5

\* the JSON endpoint and both lookups by id found nothing, and the table
\* scan returned a row while passing over a row of five cells
C17_Witness ==
    /\ PageFetched
    /\ DataFailed
    /\ qs_result.tried = Strategies
    /\ qs_result.rows # <<>>
    /\ \E i \in 1..Len(qs_input.scores_resp.page.tables) :
          \E j \in 1..Len(qs_input.scores_resp.page.tables[i].trs) :
              qs_input.scores_resp.page.tables[i].trs[j] = 5

\* every strategy yields zero rows for the answers of the call
NoRowsAnywhere == \A k \in 1..4 : Yield(k) = <<>>

\* C18: when the grades page is fetched with status 200 and every strategy
\* yields zero rows, query_scores returns true and the notification is
\* sent exactly once if the final URL is not the login page and not at all
\* if it is; no notification is sent when rows were found or when the page
\* request failed
C18_EmptyResultIsSuccess ==
    qs_pc = "done" =>
        /\ (PageFetched /\ NoRowsAnywhere) =>
              /\ qs_result.ret = "true"
              /\ qs_result.notified =
                    (IF qs_input.scores_resp.url_login THEN 0 ELSE 1)
        /\ qs_result.rows # <<>> => qs_result.notified = 0
        /\ ~PageFetched => qs_result.notified = 0

\* an authenticated query that found no rows reported success and notified
\* once
C18_Witness ==
    /\ PageFetched
    /\ NoRowsAnywhere
    /\ ~qs_input.scores_resp.url_login
    /\ qs_result.ret = "true"
    /\ qs_result.notified = 1

\* the state of the portal a query met, in the claim's terms
OutcomeState(input) ==
    IF ~input.scores_resp.present \/ input.scores_resp.status # 200
    THEN "request_failed"
    ELSE IF query_scores(input.scores_resp, input.data_resp).rows # <<>>
         THEN "rows"
         ELSE IF input.scores_resp.url_login THEN "session_expired"
              ELSE "no_data"

\* C19: the value query_scores returns tells session expired, no data and
\* request failed apart: a call that met one of them returns a value that
\* no call meeting another of them returns
C19_OutcomesDistinguished ==
    (qs_pc = "done" /\ OutcomeState(qs_input) # "rows") =>
        \A other \in QsInputs :
            (/\ OutcomeState(other) # "rows"
             /\ OutcomeState(other) # OutcomeState(qs_input))
                => query_scores(other.scores_resp, other.data_resp).ret
                       # qs_result.ret

HadIdentity ==
    \/ rt_ev.student_id \notin {"none", ""}
    \/ rt_ev.student_id = "none" /\ current_account \notin {"none", ""}

\* C21: verify_session returns true exactly when an identity is given or a
\* current account exists and the grades request comes back with status
\* 200, a final URL that is not the login page and a body with a student
\* name; otherwise, a gateway failure included, it returns false; it
\* changes neither the current account nor the account registry
C21_VerifyIsExact ==
    /\ [](rt_ev.op = "verify" =>
            /\ rt_ev.ret \in {"true", "false"}
            /\ rt_ev.ret = "true" <=>
                  /\ HadIdentity
                  /\ rt_ev.resp.present
                  /\ rt_ev.resp.status = 200
                  /\ ~rt_ev.resp.url_login
                  /\ rt_ev.resp.has_name)
    /\ [][rt_ev'.op = "verify" =>
            UNCHANGED <<current_account, accounts, session_files>>]_vars

\* a call without an argument found the session of the current account
\* valid, after a call that a gateway failure had made return false
C21_Witness ==
    /\ rt_ev.op = "verify"
    /\ rt_ev.student_id = "none"
    /\ rt_ev.ret = "true"
    /\ current_account = "2021001"
    /\ rt_ev.prev.op = "verify"
    /\ rt_ev.prev.ret = "false"

\* the last two calls were verify_session() without an argument, one right
\* after the other
VerifiedTwice ==
    /\ rt_ev.op = "verify"
    /\ rt_ev.prev.op = "verify"
    /\ rt_ev.student_id = "none"
    /\ rt_ev.prev.student_id = "none"

C23_DeleteRemovesOneAccount ==
    [][rt_ev'.op = "delete" =>
          LET identity == rt_ev'.student_id
          IN  /\ session_files'[identity] = NoFile
              /\ identity \notin accounts'
              /\ current_account' = IF current_account = identity
                                    THEN "none" ELSE current_account
              /\ \A other \in Identities \ {identity} :
                    /\ session_files'[other] = session_files[other]
                    /\ other \in accounts' <=> other \in accounts]_vars

\* the current account was deleted while another account stayed saved
C23_Witness ==
    /\ rt_ev.op = "delete"
    /\ rt_ev.student_id = "2021001"
    /\ rt_ev.prev.op = "save"
    /\ rt_ev.prev.student_id = "2021001"
    /\ current_account = "none"
    /\ session_files["2021002"] # NoFile
    /\ "2021002" \in accounts

\* C28: after any sequence of save_session, load_session and
\* delete_account calls on a store that started empty, an identity is in
\* the account registry exactly if its session file exists, and the
\* current account is none or an identity of the registry
C28_StoreConsistent ==
    /\ \A id \in Identities : id \in accounts <=> session_files[id] # NoFile
    /\ current_account = "none" \/ current_account \in accounts

\* an account was loaded as current after the deletion of another one
C28_Witness ==
    /\ rt_ev.op = "load"
    /\ rt_ev.ret = "true"
    /\ rt_ev.prev.op = "delete"
    /\ rt_ev.prev.student_id # rt_ev.student_id
    /\ current_account = rt_ev.student_id
    /\ accounts = {rt_ev.student_id}

\* C24: no operation retries without end: every call of login() (and of the
\* get_captcha and make_request calls inside it) returns, whatever the
\* network and the portal answer
C24_EveryCallReturns == (pc = "login_init") ~> (pc = "login_ret")

\* the positions of a tick inside the body of _auto_relogin, with the
\* in-progress flag set by it (session.py 369-394)
InRestore(at) == at \in {"restore", "reverify"}

\* C25: under every interleaving of ticks with enable_auto_login and
\* disable_auto_login calls at most one silent restore is executing, and a
\* tick that finds a restore in progress only reschedules the timer,
\* without verifying or restoring
C25_OneRestoreAtATime ==
    /\ [](~(InRestore(tk_pc) /\ InRestore(ot_pc)))
    /\ [][(tk_pc = "entry" /\ tk_pc' # tk_pc /\ auto_login_enabled
           /\ current_student_id # "none" /\ login_in_progress)
             => (tk_pc' = "none" /\ check_timer' = "pending")]_vars

\* C26: once disable_auto_login has returned and while the supervisor is
\* not enabled again, a tick that begins returns at once, without a
\* verification, a restore or a new timer (a tick in flight may still
\* finish and start one), and if the supervisor stays off then from some
\* time on no timer is pending
C26_DisabledSupervisorStops ==
    /\ [][(tk_pc = "entry" /\ tk_pc' # tk_pc /\ ~auto_login_enabled)
            => /\ tk_pc' = "none"
               /\ UNCHANGED <<check_timer, session, session_tokens,
                              login_in_progress>>]_vars
    /\ [][(ot_pc = "entry" /\ ot_pc' # ot_pc /\ tk_pc' = tk_pc
            /\ ~auto_login_enabled)
            => /\ ot_pc' = "none"
               /\ UNCHANGED <<check_timer, session, session_tokens,
                              login_in_progress>>]_vars
    /\ (<>[](~auto_login_enabled)) => <>[](check_timer # "pending")

\* a tick begins after disable_auto_login: the timer that a tick in flight
\* had started behind the back of the disable has fired
C26_Witness ==
    /\ ~auto_login_enabled
    /\ check_timer = "fired"
    /\ tk_pc = "entry"
\* C27: in get_captcha the wait after a rejected fetch attempt with index i
\* is delay * (i + 1), whatever the kind of rejection (cap.attempt is the
\* index of the next attempt, i + 1)
C27_BackoffIsLinear ==
    (pc = "cap_fetch" /\ cap.rejected # "none")
        => cap.slept = cap.delay * cap.attempt

\* C29: from an enable_auto_login() of AutoLoginManager that returned true
\* until the next disable_auto_login() a check loop is running (the
\* configuration value is true exactly between such an enable and the next
\* disable)
C29_EnabledLoopKeepsRunning ==
    alm_enabled => alm_pc # "none"

\* C30: the image file a handler holds as current leaves the disk only in
\* a step of that handler's own get(refresh=true) / refresh /
\* delete_current / cleanup, each of which drops or replaces the handler's
\* reference in the same step; no step of another component removes it
C30_OnlyOwnerRemovesCurrent ==
    [][(/\ current_captcha_path # 0
        /\ current_captcha_path \in disk
        /\ current_captcha_path \notin disk')
           => current_captcha_path' # current_captcha_path]_vars

====
